---- MODULE Spec2Model ----
(***************************************************************************)
(* Transcript synchronisation pipeline of dashboard-express:               *)
(*   processWebhook -> getTranscripts -> processAndSaveTranscripts         *)
(*     -> preassignTranscriptNumbers -> per-transcript units under         *)
(*        pLimit(5): upsert, getTranscriptContent, saveTranscriptTurns.    *)
(* One action per suspension point (await) of the code: an action is the   *)
(* continuation that runs when the awaited call returns, up to the next    *)
(* await.                                                                  *)
(***************************************************************************)
EXTENDS Integers, Sequences, FiniteSets, TLC

VARIABLES
    env,                    \* the platform and the faults of this behaviour (never changes)
    faultsLeft,             \* transient faults (DB write, turn GET) still to be injected
    lastTranscriptNumber,   \* Project.lastTranscriptNumber
    transcript,             \* Transcript rows, keyed by voiceflowTranscriptId
    turn,                   \* Turn rows of each persisted transcript, in insertion order
    pc,                     \* per sync: the await it is suspended at
    body,                   \* per sync: body.voiceflowProjectId
    sortedTranscripts,      \* per sync: processAndSaveTranscripts' sortedTranscripts
    nextNumber,             \* per sync: preassignTranscriptNumbers' nextNumber
    existingTranscriptMap,  \* per sync: preassignTranscriptNumbers' existingTranscriptMap
    transcriptsWithNumbers, \* per sync: the assigner's result
    chunkStart,             \* per sync: the loop variable i of the chunk loop
    unit,                   \* per sync: the per-transcript units, by position
    listGets,               \* per sync: list GETs issued by this run
    thrown,                 \* per sync: the error processWebhook rethrows
    res,                    \* per sync: what webhookHandler answered the trigger's caller
    retry,                  \* one invocation of withRetry, run on its own
    save,                   \* one fetch and save of a transcript's turns, run on its own
    tx                      \* one unit's upsert and transaction, statement by statement

vars == <<env, faultsLeft, lastTranscriptNumber, transcript, turn, pc, body,
          sortedTranscripts, nextNumber, existingTranscriptMap,
          transcriptsWithNumbers, chunkStart, unit, listGets, thrown, res, retry,
          save, tx>>

\* the state of the functions that are also run on their own, outside a sync
libraryVars == <<retry, save, tx>>

syncVars == <<pc, body, sortedTranscripts, nextNumber, existingTranscriptMap,
              transcriptsWithNumbers, chunkStart, unit, listGets, thrown>>

dbVars == <<lastTranscriptNumber, transcript, turn>>

----------------------------------------------------------------------------
(* Program constants *)

BATCH_SIZE == 10

RATE_LIMIT == 5

MAX_RETRIES == 3

FETCH_RETRIES == 3

(* Bounds of the model *)

\* transcripts on the platform when two syncs overlap
MaxOverlapTranscripts == 2

\* transcripts one of two overlapping syncs lists
MaxOverlapListed == 1

\* transcripts on the platform when syncs follow one another
MaxSerialTranscripts == 3

\* transcripts a batch holds beyond the concurrency limit
MaxBeyondLimit == 1

\* transcripts a batch holds beyond one full chunk
MaxBeyondChunk == 1

\* transient faults injected into a batch larger than the limit
MaxBurstFaults == 1

\* transient faults injected in one behaviour
MaxFaults == 3

\* transient faults injected while two syncs overlap
MaxOverlapFaults == 1

\* transcripts listed, and transient faults injected, under fair scheduling
MaxLiveTranscripts == 2

MaxLiveFaults == 3

\* transcripts listed, and transient faults injected, while calls are tallied
MaxTallyTranscripts == 1

MaxTallyFaults == 10

\* the largest number of attempts withRetry is called with on its own
MaxAttempts == 4

\* the longest turn array fetched or saved on its own
MaxTurns == 3

MaxCommitTurns == 1

MaxAssignIds == 3

MaxAssignListed == 3

Syncs == {1, 2}

----------------------------------------------------------------------------
(* Small helpers *)

Min(a, b) == IF a < b THEN a ELSE b

Range(f) == {f[x] : x \in DOMAIN f}

EmptyMap == [x \in {} |-> 0]

Put(f, k, v) == [x \in DOMAIN f \cup {k} |-> IF x = k THEN v ELSE f[x]]

RECURSIVE SetToDescSeq(_)
\* the platform lists its transcripts newest first
SetToDescSeq(S) ==
    IF S = {} THEN <<>>
    ELSE LET m == CHOOSE x \in S : \A y \in S : y <= x
         IN  <<m>> \o SetToDescSeq(S \ {m})

\* createdAt of a transcript summary: two transcripts may share a timestamp
CreatedAt(id) == (id + 1) \div 2

----------------------------------------------------------------------------
(* Array.prototype.sort as the engine runs it on the short arrays of this   *)
(* program: the initial run is found (a strictly descending one is          *)
(* reversed), the rest is inserted by binary search. M[x][y] is the         *)
(* comparator's result on the elements at positions x and y of the input;   *)
(* the result is the permutation of the input positions.                    *)

\* Body applied to the value of e, which is computed once however often Body
\* uses it
WithValue(e, Body(_)) == CHOOSE r \in {Body(v) : v \in {e}} : TRUE

RECURSIVE BinarySearch(_, _, _, _, _)
BinarySearch(p, pivot, left, right, M) ==
    IF left >= right THEN left
    ELSE LET mid == left + ((right - left) \div 2)
         IN  IF M[pivot][p[mid + 1]] < 0
             THEN BinarySearch(p, pivot, left, mid, M)
             ELSE BinarySearch(p, pivot, mid + 1, right, M)

RECURSIVE BinaryInsertionSort(_, _, _)
BinaryInsertionSort(p, start, M) ==
    IF start > Len(p) THEN p
    ELSE LET pivot == p[start]
             Insert(left) ==
                 SubSeq(p, 1, left) \o <<pivot>> \o SubSeq(p, left + 1, start - 1)
                 \o SubSeq(p, start + 1, Len(p))
             Rest(q) == BinaryInsertionSort(q, start + 1, M)
         IN  WithValue(WithValue(BinarySearch(p, pivot, 0, start - 1, M), Insert), Rest)

CountAndMakeRun(n, M) ==
    LET isDescending == M[2][1] < 0
        Continues(idx) == IF isDescending THEN M[idx][idx - 1] < 0
                          ELSE M[idx][idx - 1] >= 0
        runLength == CHOOSE r \in 2..n :
                        /\ \A idx \in 3..r : Continues(idx)
                        /\ r = n \/ ~Continues(r + 1)
    IN  [runLength |-> runLength,
         perm |-> [k \in 1..n |-> IF isDescending /\ k <= runLength
                                  THEN runLength + 1 - k ELSE k]]

ArraySort(n, M) ==
    IF n < 2 THEN [k \in 1..n |-> k]
    ELSE LET Insertions(run) == BinaryInsertionSort(run.perm, run.runLength + 1, M)
         IN  WithValue(CountAndMakeRun(n, M), Insertions)

Permute(a, perm) == [k \in 1..Len(a) |-> a[perm[k]]]

----------------------------------------------------------------------------
(* processAndSaveTranscripts: the batch in creation-time order *)

SortByCreatedAt(ts) ==
    LET Sorted(M) == Permute(ts, ArraySort(Len(ts), M))
    IN  WithValue([x \in 1..Len(ts) |-> [y \in 1..Len(ts) |->
                      CreatedAt(ts[x]) - CreatedAt(ts[y])]], Sorted)

----------------------------------------------------------------------------
(* Turns. A raw turn is [turnID, type, startTime, payload]: turnID 0 and    *)
(* type "" stand for a missing field, startTime -1 for a missing or         *)
(* unparsable timestamp (its getTime() is NaN); times are milliseconds.     *)
(* payload names the shape of the turn's payload.                           *)

NoTime == -1

\* the comparator of both sorts; a NaN result counts as 0
TurnCompare(a, b, seqA, seqB) ==
    IF a.startTime = NoTime \/ b.startTime = NoTime THEN 0
    ELSE IF a.startTime # b.startTime THEN a.startTime - b.startTime
    ELSE IF a.type = "request" /\ b.type = "text" THEN -1
    ELSE IF a.type = "text" /\ b.type = "request" THEN 1
    ELSE seqA - seqB

\* enhancedTurns.sort(...): the sorted positions of the input
SortTurnsPerm(turns) ==
    LET Sorted(M) == ArraySort(Len(turns), M)
    IN  WithValue([x \in 1..Len(turns) |-> [y \in 1..Len(turns) |->
                      TurnCompare(turns[x], turns[y], x - 1, y - 1)]], Sorted)

IsValidTurn(t) == t.turnID # 0 /\ t.startTime # NoTime /\ t.type # ""

FilterSeq(s, Keep(_)) ==
    LET F[k \in 0..Len(s)] ==
            IF k = 0 THEN <<>>
            ELSE IF Keep(s[k]) THEN Append(F[k - 1], s[k]) ELSE F[k - 1]
    IN  F[Len(s)]

\* getTranscriptContent on an array body: sort, strip the sequence, drop invalid turns
NormalizeFetched(data) ==
    LET Valid(sorted) == FilterSeq(sorted, IsValidTurn)
    IN  WithValue(Permute(data, SortTurnsPerm(data)), Valid)

\* saveTranscriptTurns' sortedTurns: each turn with the sequence it had on arrival there
SortedWithSequence(turns) ==
    LET Sequenced(perm) ==
            [k \in 1..Len(turns) |->
                [turnID |-> turns[perm[k]].turnID, type |-> turns[perm[k]].type,
                 startTime |-> turns[perm[k]].startTime,
                 payload |-> turns[perm[k]].payload, sequence |-> perm[k] - 1]]
    IN  WithValue(SortTurnsPerm(turns), Sequenced)

Round(ms) == (ms + 500) \div 1000

NoMetrics ==
    [messageCount |-> 0, firstResponse |-> NoTime, lastResponse |-> NoTime,
     duration |-> NoTime, isComplete |-> FALSE]

\* new Date(a) > new Date(b): false when a date is invalid
Later(a, b) == a # NoTime /\ b # NoTime /\ a > b

\* metrics that would count every turn as a message
calculateTranscriptMetricsCountingAll(turns) ==
    LET n == Len(turns)
        firstResponse == IF n > 0 THEN turns[1].startTime ELSE NoTime
        lastResponse == IF n > 0 THEN turns[n].startTime ELSE NoTime
    IN  [messageCount |-> n, firstResponse |-> firstResponse,
         lastResponse |-> lastResponse,
         duration |-> IF n > 0 /\ firstResponse # NoTime /\ lastResponse # NoTime
                      THEN Round(lastResponse - firstResponse) ELSE NoTime,
         isComplete |-> /\ n > 0
                        /\ \/ turns[n].type = "choice"
                           \/ /\ turns[n].type = "text"
                              /\ ~\E k \in 1..n :
                                    /\ turns[k].type = "request"
                                    /\ Later(turns[k].startTime, turns[n].startTime)]

\* metrics that would call a transcript complete whenever it ends in a text turn
calculateTranscriptMetricsByLastTurn(turns) ==
    LET n == Len(turns)
        firstResponse == IF n > 0 THEN turns[1].startTime ELSE NoTime
        lastResponse == IF n > 0 THEN turns[n].startTime ELSE NoTime
    IN  [messageCount |->
             Cardinality({k \in 1..n : turns[k].type \in {"text", "request"}}),
         firstResponse |-> firstResponse, lastResponse |-> lastResponse,
         duration |-> IF n > 0 /\ firstResponse # NoTime /\ lastResponse # NoTime
                      THEN Round(lastResponse - firstResponse) ELSE NoTime,
         isComplete |-> n > 0 /\ turns[n].type \in {"choice", "text"}]

\* metrics that would call a text ending incomplete when a request is not earlier
calculateTranscriptMetricsNotEarlier(turns) ==
    LET n == Len(turns)
        firstResponse == IF n > 0 THEN turns[1].startTime ELSE NoTime
        lastResponse == IF n > 0 THEN turns[n].startTime ELSE NoTime
    IN  [messageCount |->
             Cardinality({k \in 1..n : turns[k].type \in {"text", "request"}}),
         firstResponse |-> firstResponse, lastResponse |-> lastResponse,
         duration |-> IF n > 0 /\ firstResponse # NoTime /\ lastResponse # NoTime
                      THEN Round(lastResponse - firstResponse) ELSE NoTime,
         isComplete |-> /\ n > 0
                        /\ \/ turns[n].type = "choice"
                           \/ /\ turns[n].type = "text"
                              /\ ~\E k \in 1..n :
                                    /\ turns[k].type = "request"
                                    /\ turns[k].startTime # NoTime
                                    /\ turns[n].startTime # NoTime
                                    /\ turns[k].startTime >= turns[n].startTime]

\* in the metrics NoTime stands for null, for an invalid Date and for NaN
calculateTranscriptMetrics(turns) ==
    LET n == Len(turns)
        messageCount == Cardinality({k \in 1..n : turns[k].type \in {"text", "request"}})
        firstResponse == IF n > 0 THEN turns[1].startTime ELSE NoTime
        lastResponse == IF n > 0 THEN turns[n].startTime ELSE NoTime
        duration == IF n > 0 /\ firstResponse # NoTime /\ lastResponse # NoTime
                    THEN Round(lastResponse - firstResponse) ELSE NoTime
        isComplete ==
            /\ n > 0
            /\ \/ turns[n].type = "choice"
               \/ /\ turns[n].type = "text"
                  /\ ~\E k \in 1..n : /\ turns[k].type = "request"
                                      /\ Later(turns[k].startTime, turns[n].startTime)
    IN  [messageCount |-> messageCount, firstResponse |-> firstResponse,
         lastResponse |-> lastResponse, duration |-> duration,
         isComplete |-> isComplete]

----------------------------------------------------------------------------
(* Semantic analysis *)

\* the text extractMessages takes from one turn ("" when none)
ExtractMessage(t) ==
    IF t.type = "text" /\ t.payload = "slate" THEN "slate text"
    ELSE IF t.type = "request" /\ t.payload = "query" THEN "query"
    ELSE IF t.type = "request" /\ t.payload = "label" THEN "label"
    ELSE IF t.type = "request" /\ t.payload = "launch" THEN "Conversation started"
    ELSE IF t.payload = "message" THEN "message"
    ELSE ""

extractMessages(turns) ==
    LET texts == [k \in 1..Len(turns) |-> ExtractMessage(turns[k])]
        Wanted(k) == turns[k].type \in {"text", "request"} /\ texts[k] # ""
        F[k \in 0..Len(turns)] ==
            IF k = 0 THEN <<>>
            ELSE IF Wanted(k) THEN Append(F[k - 1], texts[k]) ELSE F[k - 1]
    IN  F[Len(turns)]

FallbackAnalysis ==
    [language |-> "en", topic |-> "Unknown Topic",
     topicTranslations |-> [en |-> "Unknown Topic", de |-> "Unbekanntes Thema"],
     name |-> "unknown"]

\* the result analyzeTranscript builds from the completion it received
AnalysisFrom(response) ==
    IF response.kind = "json"
    THEN [language |-> response.language, topic |-> response.topic_en,
          topicTranslations |-> [en |-> response.topic_en, de |-> response.topic_de],
          name |-> response.name]
    ELSE FallbackAnalysis

----------------------------------------------------------------------------
(* What the platform and the analysis service may answer *)

Turn(id, type, startTime, payload) ==
    [turnID |-> id, type |-> type, startTime |-> startTime, payload |-> payload]

\* a response body of the turn endpoint: an array of raw turns, or something else
ArrayBody(data) == [isArray |-> TRUE, data |-> data]

NonArrayBody == [isArray |-> FALSE, data |-> <<>>]

\* text and request share a timestamp and arrive in the wrong order; one turn has no id
Conversation ==
    <<Turn(1, "text", 1000, "slate"), Turn(2, "request", 1000, "query"),
      Turn(0, "text", 3000, "slate"), Turn(3, "request", 0, "launch")>>

\* no turn carries text
Silent == <<Turn(4, "choice", 2000, "empty"), Turn(5, "block", 0, "empty")>>

Completion(lang, en, de, name) ==
    [kind |-> "json", language |-> lang, topic_en |-> en, topic_de |-> de, name |-> name]

GoodCompletion == Completion("de", "topic", "Thema", "Ada")

FailedCompletion == [kind |-> "error"]

Completions == {GoodCompletion, FailedCompletion}

Bodies == {"known", "unknown", ""}

----------------------------------------------------------------------------
(* State *)

SyncLabels ==
    {"Idle", "validate", "findApiKey", "getTranscripts", "findProject",
     "readCounter", "findExisting", "increment", "ProcessingBatch", "Done", "Failed"}

\* the orchestrator state a suspension point belongs to
Phase(label) ==
    CASE label \in {"validate", "findApiKey", "getTranscripts"} -> "ListingTranscripts"
      [] label \in {"findProject", "readCounter", "findExisting", "increment"}
            -> "AssigningNumbers"
      [] OTHER -> label

ActiveStates == {"upsert", "get", "getWait", "analyze", "commit", "delay", "backoff"}

SettledStates == {"fulfilled", "rejected"}

NoAnalysis == [language |-> "null", topic |-> "null",
               topicTranslations |-> [en |-> "null", de |-> "null"], name |-> "null"]

\* calls counts the upserts, turn GETs and transactions the unit has issued, in
\* the behaviours that tally them
FreshUnit == [st |-> "idle", retryCount |-> 0, i |-> 0, turns |-> <<>>,
              analysis |-> NoAnalysis, waits |-> <<>>,
              calls |-> [upsert |-> 0, get |-> 0, commit |-> 0]]

\* the unit issues a call and waits for it
Issue(u, call) ==
    IF env.tally THEN [u EXCEPT !.st = call, !.calls[call] = @ + 1]
    ELSE [u EXCEPT !.st = call]

\* res.json({ success: true, message: 'Webhook received, processing in background' })
Accepted == [status |-> 200, success |-> TRUE]

\* the handler has not run
NotAnswered == [status |-> 0, success |-> FALSE]

\* withRetry is not running
NoRetry == [st |-> "idle", retries |-> 0, delay |-> 0, i |-> 0, lastError |-> "undefined",
            calls |-> 0, errors |-> <<>>, waits |-> <<>>]

\* nothing is fetched or saved
NoSave == [st |-> "idle", id |-> 0, response |-> [isArray |-> TRUE, data |-> <<>>],
           turns |-> <<>>, sortedTurns |-> <<>>, metrics |-> NoMetrics,
           messages |-> <<>>, analysis |-> NoAnalysis, calls |-> 0,
           outcome |-> [kind |-> "none"], earlier |-> <<>>]

\* no unit is followed through its transaction
NoTx == [st |-> "idle", id |-> 0, sortedTurns |-> <<>>, analysis |-> NoAnalysis,
         transcript |-> EmptyMap, turn |-> EmptyMap, failedAt |-> "none",
         previous |-> [row |-> EmptyMap, turns |-> <<>>]]

LibraryIdle == retry = NoRetry /\ save = NoSave /\ tx = NoTx

InitSync ==
    /\ pc = [s \in Syncs |-> "Idle"]
    /\ body = [s \in Syncs |-> ""]
    /\ sortedTranscripts = [s \in Syncs |-> <<>>]
    /\ nextNumber = [s \in Syncs |-> 0]
    /\ existingTranscriptMap = [s \in Syncs |-> EmptyMap]
    /\ transcriptsWithNumbers = [s \in Syncs |-> <<>>]
    /\ chunkStart = [s \in Syncs |-> 0]
    /\ unit = [s \in Syncs |-> <<>>]
    /\ listGets = [s \in Syncs |-> 0]
    /\ thrown = [s \in Syncs |-> "none"]
    /\ res = [s \in Syncs |-> NotAnswered]

\* a new project: @default(0), no transcripts
InitDb ==
    /\ lastTranscriptNumber = 0
    /\ transcript = EmptyMap
    /\ turn = EmptyMap

Environment(overlap, nsyncs, listings, flaky, talkative) ==
    env = [overlap |-> overlap, nsyncs |-> nsyncs, listings |-> listings,
           flaky |-> flaky, talkative |-> talkative, tally |-> FALSE]

\* two syncs of the project may overlap; each lists a few of the transcripts
Init ==
    /\ Environment(TRUE, 2,
                   {S \in SUBSET (1..MaxOverlapTranscripts) :
                       Cardinality(S) <= MaxOverlapListed},
                   1..MaxOverlapTranscripts, {1})
    /\ faultsLeft = MaxOverlapFaults
    /\ InitDb
    /\ InitSync
    /\ LibraryIdle

\* two syncs, the second triggered after the first has ended; the platform lists
\* all the transcripts it has so far
InitSerial ==
    /\ Environment(FALSE, 2, {1..n : n \in 0..MaxSerialTranscripts},
                   1..MaxSerialTranscripts, {MaxSerialTranscripts})
    /\ faultsLeft = MaxFaults
    /\ InitDb
    /\ InitSync
    /\ LibraryIdle

\* one sync of a batch larger than the limit, where the calls for one transcript
\* may fail
InitBurst ==
    /\ Environment(FALSE, 1, {1..(RATE_LIMIT + MaxBeyondLimit)}, {1}, {})
    /\ faultsLeft = MaxBurstFaults
    /\ InitDb
    /\ InitSync
    /\ LibraryIdle

\* one sync of a batch of more than one chunk, where the calls for the transcripts
\* of the last chunk may fail
InitChunks ==
    /\ Environment(FALSE, 1, {1..(BATCH_SIZE + MaxBeyondChunk)},
                   (BATCH_SIZE + 1)..(BATCH_SIZE + MaxBeyondChunk),
                   (BATCH_SIZE + 1)..(BATCH_SIZE + MaxBeyondChunk))
    /\ faultsLeft = MaxFaults
    /\ InitDb
    /\ InitSync
    /\ LibraryIdle

InitBatch == InitBurst \/ InitChunks

\* one sync of a short list, every call of which may fail
InitLive ==
    /\ Environment(FALSE, 1, {1..MaxLiveTranscripts}, 1..MaxLiveTranscripts, {1})
    /\ faultsLeft = MaxLiveFaults
    /\ InitDb
    /\ InitSync
    /\ LibraryIdle

\* one sync of one transcript whose calls are tallied; any call may fail, more
\* often than the retries allow for
InitTally ==
    /\ \E talkative \in SUBSET (1..MaxTallyTranscripts) :
          env = [overlap |-> FALSE, nsyncs |-> 1, listings |-> {1..MaxTallyTranscripts},
                 flaky |-> 1..MaxTallyTranscripts, talkative |-> talkative,
                 tally |-> TRUE]
    /\ faultsLeft = MaxTallyFaults
    /\ InitDb
    /\ InitSync
    /\ LibraryIdle

----------------------------------------------------------------------------
(* processWebhook up to the batch *)

Fail(s, error) ==
    /\ pc' = [pc EXCEPT ![s] = "Failed"]
    /\ thrown' = [thrown EXCEPT ![s] = error]

\* a handler that would await processWebhook(body) before it answers
TriggerAwaiting(s) ==
    /\ pc[s] = "Idle"
    /\ s <= env.nsyncs
    /\ \A o \in Syncs : o < s => pc[o] # "Idle"
    /\ env.overlap \/ \A o \in Syncs \ {s} : pc[o] \in {"Idle", "Done", "Failed"}
    /\ \E b \in Bodies : body' = [body EXCEPT ![s] = b]
    /\ pc' = [pc EXCEPT ![s] = "validate"]
    /\ UNCHANGED <<libraryVars, res, env, faultsLeft, dbVars, sortedTranscripts,
                   nextNumber, existingTranscriptMap, transcriptsWithNumbers, chunkStart,
                   unit, listGets, thrown>>

\* the webhook handler starts processWebhook(body) and answers
Trigger(s) ==
    /\ pc[s] = "Idle"
    /\ s <= env.nsyncs
    /\ \A o \in Syncs : o < s => pc[o] # "Idle"
    /\ env.overlap \/ \A o \in Syncs \ {s} : pc[o] \in {"Idle", "Done", "Failed"}
    /\ \E b \in Bodies : body' = [body EXCEPT ![s] = b]
    /\ pc' = [pc EXCEPT ![s] = "validate"]
    /\ res' = [res EXCEPT ![s] = Accepted]
    /\ UNCHANGED <<libraryVars, env, faultsLeft, dbVars, sortedTranscripts,
                   nextNumber, existingTranscriptMap, transcriptsWithNumbers, chunkStart,
                   unit, listGets, thrown>>

\* if (!voiceflowProjectId) throw; else prisma.project.findFirst is issued
Validate(s) ==
    /\ pc[s] = "validate"
    /\ IF body[s] = ""
       THEN Fail(s, "MissingProjectId")
       ELSE pc' = [pc EXCEPT ![s] = "findApiKey"] /\ UNCHANGED thrown
    /\ UNCHANGED <<libraryVars, res, env, faultsLeft, dbVars, body,
                   sortedTranscripts, nextNumber, existingTranscriptMap,
                   transcriptsWithNumbers, chunkStart, unit, listGets>>

\* findFirst returns: no project throws, else getTranscripts issues its GET
FindApiKeyReturn(s) ==
    /\ pc[s] = "findApiKey"
    /\ IF body[s] # "known"
       THEN Fail(s, "ProjectNotFound") /\ UNCHANGED listGets
       ELSE /\ pc' = [pc EXCEPT ![s] = "getTranscripts"]
            /\ listGets' = [listGets EXCEPT ![s] = @ + 1]
            /\ UNCHANGED thrown
    /\ UNCHANGED <<libraryVars, res, env, faultsLeft, dbVars, body,
                   sortedTranscripts, nextNumber, existingTranscriptMap,
                   transcriptsWithNumbers, chunkStart, unit>>

\* the list GET returns an array: processAndSaveTranscripts sorts it and looks the
\* project up
GetTranscriptsReturn(s) ==
    /\ pc[s] = "getTranscripts"
    /\ \E listed \in env.listings :
          sortedTranscripts' =
              [sortedTranscripts EXCEPT ![s] = SortByCreatedAt(SetToDescSeq(listed))]
    /\ pc' = [pc EXCEPT ![s] = "findProject"]
    /\ UNCHANGED <<libraryVars, res, env, faultsLeft, dbVars, body, nextNumber,
                   existingTranscriptMap, transcriptsWithNumbers, chunkStart, unit,
                   listGets, thrown>>

\* a list call that would be issued again after a failure, as the turn call is
GetTranscriptsThrowsRetrying(s) ==
    /\ pc[s] = "getTranscripts"
    /\ IF listGets[s] < FETCH_RETRIES
       THEN /\ listGets' = [listGets EXCEPT ![s] = @ + 1]
            /\ UNCHANGED <<pc, thrown>>
       ELSE /\ \E error \in {"AxiosError", "InvalidResponseFormat"} : Fail(s, error)
            /\ UNCHANGED listGets
    /\ UNCHANGED <<libraryVars, res, env, faultsLeft, dbVars, body,
                   sortedTranscripts, nextNumber, existingTranscriptMap,
                   transcriptsWithNumbers, chunkStart, unit>>

\* the list GET fails, or its body is not an array: getTranscripts throws
GetTranscriptsThrows(s) ==
    /\ pc[s] = "getTranscripts"
    /\ \E error \in {"AxiosError", "InvalidResponseFormat"} : Fail(s, error)
    /\ UNCHANGED <<libraryVars, res, env, faultsLeft, dbVars, body,
                   sortedTranscripts, nextNumber, existingTranscriptMap,
                   transcriptsWithNumbers, chunkStart, unit, listGets>>

\* processAndSaveTranscripts' findFirst returns; preassignTranscriptNumbers reads the
\* project
FindProjectReturn(s) ==
    /\ pc[s] = "findProject"
    /\ pc' = [pc EXCEPT ![s] = "readCounter"]
    /\ UNCHANGED <<libraryVars, res, env, faultsLeft, dbVars, body,
                   sortedTranscripts, nextNumber, existingTranscriptMap,
                   transcriptsWithNumbers, chunkStart, unit, listGets, thrown>>

\* let nextNumber = project.lastTranscriptNumber + 1; findMany is issued
ReadCounterReturn(s) ==
    /\ pc[s] = "readCounter"
    /\ nextNumber' = [nextNumber EXCEPT ![s] = lastTranscriptNumber + 1]
    /\ pc' = [pc EXCEPT ![s] = "findExisting"]
    /\ UNCHANGED <<libraryVars, res, env, faultsLeft, dbVars, body,
                   sortedTranscripts, existingTranscriptMap, transcriptsWithNumbers,
                   chunkStart, unit, listGets, thrown>>

\* a database statement of the listing or the assigner fails
DatabaseThrows(s) ==
    /\ pc[s] \in {"findApiKey", "findProject", "readCounter", "findExisting", "increment"}
    /\ Fail(s, "DatabaseError")
    /\ UNCHANGED <<libraryVars, res, env, faultsLeft, dbVars, body,
                   sortedTranscripts, nextNumber, existingTranscriptMap,
                   transcriptsWithNumbers, chunkStart, unit, listGets>>

----------------------------------------------------------------------------
(* preassignTranscriptNumbers *)

\* findMany: the stored numbers of the listed transcripts that have a row
ExistingOf(ts) ==
    [id \in Range(ts) \cap DOMAIN transcript |-> transcript[id].transcriptNumber]

IsNew(map, id) == id \notin DOMAIN map

newTranscriptsCount(map, ts) == Cardinality({k \in 1..Len(ts) : IsNew(map, ts[k])})

\* a numbering by the position in the batch instead of the count of new transcripts
AssignNumbersByPosition(map, next, ts) ==
    [k \in 1..Len(ts) |->
        [id |-> ts[k],
         assignedNumber |-> IF IsNew(map, ts[k]) \/ map[ts[k]] = 0
                            THEN next + k - 1 ELSE map[ts[k]]]]

\* transcripts.map(t => existingTranscriptMap.get(t._id) || nextNumber++)
AssignNumbers(map, next, ts) ==
    LET Fresh(k) == IsNew(map, ts[k]) \/ map[ts[k]] = 0
    IN  [k \in 1..Len(ts) |->
            [id |-> ts[k],
             assignedNumber |->
                 IF Fresh(k)
                 THEN next + Cardinality({j \in 1..(k - 1) : Fresh(j)})
                 ELSE map[ts[k]]]]

----------------------------------------------------------------------------
(* pLimit(5) and the chunk loop *)

Active(us) == {k \in 1..Len(us) : us[k].st \in ActiveStates}

\* a scheduler without the limit: every queued unit starts at once
DispatchUnlimited(us) ==
    [k \in 1..Len(us) |-> IF us[k].st = "queued" THEN Issue(us[k], "upsert")
                          ELSE us[k]]

\* p-limit starts queued functions first-in first-out while fewer than 5 run;
\* a started unit issues its upsert
Dispatch(us) ==
    LET free == RATE_LIMIT - Cardinality(Active(us))
        queued == {k \in 1..Len(us) : us[k].st = "queued"}
        Starts(k) == k \in queued /\ Cardinality({j \in queued : j < k}) < free
    IN  [k \in 1..Len(us) |-> IF Starts(k) THEN Issue(us[k], "upsert") ELSE us[k]]

ChunkOf(start, n) == (start + 1)..Min(start + BATCH_SIZE, n)

\* batch.map(transcript => RATE_LIMIT(...)): the chunk's units are handed to p-limit
SubmitChunk(us, start) ==
    Dispatch([k \in 1..Len(us) |->
                 IF k \in ChunkOf(start, Len(us))
                 THEN [us[k] EXCEPT !.st = "queued"] ELSE us[k]])

\* a join that rejects with the first unit that does (Promise.all): the sync fails
ContinueFailFast(s, us) ==
    LET n == Len(us)
        chunkSettled == \A k \in ChunkOf(chunkStart[s], n) : us[k].st \in SettledStates
    IN  /\ pc' = IF \E k \in 1..n : us[k].st = "rejected"
                 THEN [pc EXCEPT ![s] = "Failed"] ELSE pc
        /\ IF chunkSettled /\ chunkStart[s] + BATCH_SIZE < n
           THEN /\ chunkStart' = [chunkStart EXCEPT ![s] = @ + BATCH_SIZE]
                /\ unit' = [unit EXCEPT ![s] = SubmitChunk(us, chunkStart[s] + BATCH_SIZE)]
           ELSE /\ unit' = [unit EXCEPT ![s] = Dispatch(us)]
                /\ UNCHANGED chunkStart

\* the continuation after a unit's step: p-limit starts the next queued unit, and
\* when Promise.allSettled of the chunk resolves the loop submits the next chunk
Continue(s, us) ==
    LET n == Len(us)
        chunkSettled == \A k \in ChunkOf(chunkStart[s], n) : us[k].st \in SettledStates
    IN  /\ UNCHANGED pc
        /\ IF chunkSettled /\ chunkStart[s] + BATCH_SIZE < n
           THEN /\ chunkStart' = [chunkStart EXCEPT ![s] = @ + BATCH_SIZE]
                /\ unit' = [unit EXCEPT ![s] = SubmitChunk(us, chunkStart[s] + BATCH_SIZE)]
           ELSE /\ unit' = [unit EXCEPT ![s] = Dispatch(us)]
                /\ UNCHANGED chunkStart

\* the assigner returns: the chunk loop starts
StartBatch(s, map) ==
    LET assigned == AssignNumbers(map, nextNumber[s], sortedTranscripts[s])
    IN  /\ transcriptsWithNumbers' = [transcriptsWithNumbers EXCEPT ![s] = assigned]
        /\ chunkStart' = [chunkStart EXCEPT ![s] = 0]
        /\ pc' = [pc EXCEPT ![s] = "ProcessingBatch"]
        /\ unit' = [unit EXCEPT ![s] =
                       SubmitChunk([k \in 1..Len(assigned) |-> FreshUnit], 0)]

\* a return that would report a batch with a rejected unit as a failed sync
BatchReturnRejecting(s) ==
    /\ pc[s] = "ProcessingBatch"
    /\ \A k \in 1..Len(unit[s]) : unit[s][k].st \in SettledStates
    /\ pc' = [pc EXCEPT ![s] = IF \E k \in 1..Len(unit[s]) : unit[s][k].st = "rejected"
                               THEN "Failed" ELSE "Done"]
    /\ UNCHANGED <<libraryVars, res, env, faultsLeft, dbVars, body,
                   sortedTranscripts, nextNumber, existingTranscriptMap,
                   transcriptsWithNumbers, chunkStart, unit, listGets, thrown>>

\* the loop is over (every chunk settled): processAndSaveTranscripts and
\* processWebhook return
BatchReturn(s) ==
    /\ pc[s] = "ProcessingBatch"
    /\ \A k \in 1..Len(unit[s]) : unit[s][k].st \in SettledStates
    /\ pc' = [pc EXCEPT ![s] = "Done"]
    /\ UNCHANGED <<libraryVars, res, env, faultsLeft, dbVars, body,
                   sortedTranscripts, nextNumber, existingTranscriptMap,
                   transcriptsWithNumbers, chunkStart, unit, listGets, thrown>>

\* findMany returns: with new transcripts the counter update is issued, else the
\* numbers are handed out
FindExistingReturn(s) ==
    /\ pc[s] = "findExisting"
    /\ LET map == ExistingOf(sortedTranscripts[s])
       IN  /\ existingTranscriptMap' = [existingTranscriptMap EXCEPT ![s] = map]
           /\ IF newTranscriptsCount(map, sortedTranscripts[s]) > 0
              THEN /\ pc' = [pc EXCEPT ![s] = "increment"]
                   /\ UNCHANGED <<transcriptsWithNumbers, chunkStart, unit>>
              ELSE StartBatch(s, map)
    /\ UNCHANGED <<libraryVars, res, env, faultsLeft, dbVars, body,
                   sortedTranscripts, nextNumber, listGets, thrown>>

\* lastTranscriptNumber: { increment: newTranscriptsCount } is applied, and the
\* numbers are handed out from the value read before
IncrementReturn(s) ==
    /\ pc[s] = "increment"
    /\ lastTranscriptNumber' = lastTranscriptNumber +
           newTranscriptsCount(existingTranscriptMap[s], sortedTranscripts[s])
    /\ StartBatch(s, existingTranscriptMap[s])
    /\ UNCHANGED <<libraryVars, res, env, faultsLeft, transcript, turn, body,
                   sortedTranscripts, nextNumber, existingTranscriptMap, listGets,
                   thrown>>

----------------------------------------------------------------------------
(* One per-transcript unit: the function handed to RATE_LIMIT *)

IsUnitAt(s, k, st) ==
    /\ pc[s] = "ProcessingBatch"
    /\ k \in 1..Len(unit[s])
    /\ unit[s][k].st = st

IdOf(s, k) == transcriptsWithNumbers[s][k].id

\* the turn endpoint's possible answers for a transcript
ContentsOf(id) ==
    IF id \in env.talkative THEN {ArrayBody(Conversation)}
    ELSE IF id % 2 = 0 THEN {ArrayBody(Silent)}
    ELSE {NonArrayBody}

\* a transient fault may hit a call made for transcript id
CanFail(id) == faultsLeft > 0 /\ id \in env.flaky

\* Math.pow(2, retryCount) * 1000
backoffDelay(retryCount) == 2^retryCount * 1000

\* a catch that would give up at the first error
CaughtOnce(u) ==
    [FreshUnit EXCEPT !.retryCount = u.retryCount + 1, !.st = "rejected",
                      !.calls = u.calls]

\* catch (error): retryCount++, rethrow at MAX_RETRIES, else wait the backoff (the
\* unit's waits so far are recorded in waits)
Caught(u) ==
    [FreshUnit EXCEPT !.retryCount = u.retryCount + 1, !.calls = u.calls,
                      !.st = IF u.retryCount + 1 = MAX_RETRIES
                             THEN "rejected" ELSE "backoff",
                      !.waits = IF u.retryCount + 1 = MAX_RETRIES
                                THEN u.waits
                                ELSE Append(u.waits, backoffDelay(u.retryCount + 1))]

NewRow(number) ==
    [transcriptNumber |-> number, name |-> "Untitled", metrics |-> NoMetrics,
     language |-> "null", topic |-> "null",
     topicTranslations |-> [en |-> "null", de |-> "null"]]

\* an update branch that would also write the number assigned by this sync
UpsertUpdateRenumbering(row, tw) ==
    [row EXCEPT !.name = "Untitled", !.transcriptNumber = tw.assignedNumber]

\* the update branch of the upsert
UpsertUpdate(row, tw) == [row EXCEPT !.name = "Untitled"]

\* the create branch of the upsert
UpsertCreate(tw) == NewRow(tw.assignedNumber)

\* @@unique([projectId, transcriptNumber])
NumberTaken(number) == \E id \in DOMAIN transcript : transcript[id].transcriptNumber = number

\* an upsert whose create branch would also set the project's counter to the
\* number of the row it creates
UpsertReturnCounting(s, k) ==
    /\ IsUnitAt(s, k, "upsert")
    /\ LET tw == transcriptsWithNumbers[s][k]
           u  == unit[s][k]
       IN  IF tw.id \in DOMAIN transcript
           THEN /\ transcript' = [transcript EXCEPT ![tw.id] = UpsertUpdate(@, tw)]
                /\ UNCHANGED <<turn, lastTranscriptNumber>>
                /\ Continue(s, [unit[s] EXCEPT ![k] = [Issue(u, "get") EXCEPT !.i = 0]])
           ELSE IF NumberTaken(tw.assignedNumber)
           THEN /\ UNCHANGED <<transcript, turn, lastTranscriptNumber>>
                /\ Continue(s, [unit[s] EXCEPT ![k] = Caught(u)])
           ELSE /\ transcript' = Put(transcript, tw.id, UpsertCreate(tw))
                /\ turn' = Put(turn, tw.id, <<>>)
                /\ lastTranscriptNumber' = tw.assignedNumber
                /\ Continue(s, [unit[s] EXCEPT ![k] = [Issue(u, "get") EXCEPT !.i = 0]])
    /\ UNCHANGED <<libraryVars, res, env, faultsLeft, body,
                   sortedTranscripts, nextNumber, existingTranscriptMap,
                   transcriptsWithNumbers, listGets, thrown>>

\* prisma.transcript.upsert returns (or the create violates the unique number):
\* the turn GET is issued
UpsertReturn(s, k) ==
    /\ IsUnitAt(s, k, "upsert")
    /\ LET tw == transcriptsWithNumbers[s][k]
           u  == unit[s][k]
       IN  IF tw.id \in DOMAIN transcript
           THEN /\ transcript' = [transcript EXCEPT ![tw.id] = UpsertUpdate(@, tw)]
                /\ turn' = turn
                /\ Continue(s, [unit[s] EXCEPT ![k] = [Issue(u, "get") EXCEPT !.i = 0]])
           ELSE IF NumberTaken(tw.assignedNumber)
           THEN /\ UNCHANGED <<transcript, turn>>
                /\ Continue(s, [unit[s] EXCEPT ![k] = Caught(u)])
           ELSE /\ transcript' = Put(transcript, tw.id, UpsertCreate(tw))
                /\ turn' = Put(turn, tw.id, <<>>)
                /\ Continue(s, [unit[s] EXCEPT ![k] = [Issue(u, "get") EXCEPT !.i = 0]])
    /\ UNCHANGED <<libraryVars, res, env, faultsLeft, lastTranscriptNumber, body,
                   sortedTranscripts, nextNumber, existingTranscriptMap,
                   transcriptsWithNumbers, listGets, thrown>>

\* the upsert fails
UpsertThrows(s, k) ==
    /\ IsUnitAt(s, k, "upsert")
    /\ CanFail(IdOf(s, k))
    /\ faultsLeft' = faultsLeft - 1
    /\ Continue(s, [unit[s] EXCEPT ![k] = Caught(unit[s][k])])
    /\ UNCHANGED <<libraryVars, res, env, dbVars, body, sortedTranscripts,
                   nextNumber, existingTranscriptMap, transcriptsWithNumbers, listGets,
                   thrown>>

\* the turns getTranscriptContent returns for a response body
FetchedTurns(response) ==
    IF response.isArray THEN NormalizeFetched(response.data) ELSE <<>>

\* the turn GET returns: getTranscriptContent normalizes, saveTranscriptTurns sorts
\* and computes the metrics, analyzeTranscript extracts the messages and either
\* answers with the fallback (the transaction starts) or calls the analysis service
GetReturn(s, k) ==
    /\ IsUnitAt(s, k, "get")
    /\ \E response \in ContentsOf(IdOf(s, k)) :
        \E fetched \in {FetchedTurns(response)} :
        \E sortedTurns \in {SortedWithSequence(fetched)} :
          LET u == unit[s][k]
          IN  IF extractMessages(sortedTurns) = <<>>
              THEN Continue(s, [unit[s] EXCEPT ![k] =
                       [Issue(u, "commit") EXCEPT !.i = 0, !.turns = sortedTurns,
                                 !.analysis = FallbackAnalysis]])
              ELSE Continue(s, [unit[s] EXCEPT ![k] =
                       [u EXCEPT !.st = "analyze", !.i = 0, !.turns = sortedTurns]])
    /\ UNCHANGED <<libraryVars, res, env, faultsLeft, dbVars, body,
                   sortedTranscripts, nextNumber, existingTranscriptMap,
                   transcriptsWithNumbers, listGets, thrown>>

\* a withRetry that would try once more than it is asked to
GetThrowsOnceMore(s, k) ==
    /\ IsUnitAt(s, k, "get")
    /\ CanFail(IdOf(s, k))
    /\ faultsLeft' = faultsLeft - 1
    /\ LET u == unit[s][k]
       IN  IF u.i < FETCH_RETRIES
           THEN Continue(s, [unit[s] EXCEPT ![k] = [u EXCEPT !.st = "getWait"]])
           ELSE Continue(s, [unit[s] EXCEPT ![k] = Caught(u)])
    /\ UNCHANGED <<libraryVars, res, env, dbVars, body, sortedTranscripts,
                   nextNumber, existingTranscriptMap, transcriptsWithNumbers, listGets,
                   thrown>>

\* the turn GET fails: withRetry waits and tries again, or throws after the last
\* attempt
GetThrows(s, k) ==
    /\ IsUnitAt(s, k, "get")
    /\ CanFail(IdOf(s, k))
    /\ faultsLeft' = faultsLeft - 1
    /\ LET u == unit[s][k]
       IN  IF u.i < FETCH_RETRIES - 1
           THEN Continue(s, [unit[s] EXCEPT ![k] = [u EXCEPT !.st = "getWait"]])
           ELSE Continue(s, [unit[s] EXCEPT ![k] = Caught(u)])
    /\ UNCHANGED <<libraryVars, res, env, dbVars, body, sortedTranscripts,
                   nextNumber, existingTranscriptMap, transcriptsWithNumbers, listGets,
                   thrown>>

\* withRetry's wait of delay * 2^i is over: the next attempt issues the GET
GetWaitElapsed(s, k) ==
    /\ IsUnitAt(s, k, "getWait")
    /\ Continue(s, [unit[s] EXCEPT ![k] = [Issue(@, "get") EXCEPT !.i = @ + 1]])
    /\ UNCHANGED <<libraryVars, res, env, faultsLeft, dbVars, body,
                   sortedTranscripts, nextNumber, existingTranscriptMap,
                   transcriptsWithNumbers, listGets, thrown>>

\* the analysis call returns or fails: the transaction starts
AnalyzeReturn(s, k) ==
    /\ IsUnitAt(s, k, "analyze")
    /\ \E completion \in Completions :
          Continue(s, [unit[s] EXCEPT ![k] =
              [Issue(@, "commit") EXCEPT !.analysis = AnalysisFrom(completion)]])
    /\ UNCHANGED <<libraryVars, res, env, faultsLeft, dbVars, body,
                   sortedTranscripts, nextNumber, existingTranscriptMap,
                   transcriptsWithNumbers, listGets, thrown>>

\* tx.transcript.update
CommitRow(row, sortedTurns, analysis) ==
    [row EXCEPT !.metrics = calculateTranscriptMetrics(sortedTurns),
                !.language = analysis.language,
                !.topic = analysis.topic,
                !.topicTranslations = analysis.topicTranslations,
                !.name = analysis.name]

\* tx.turn.createMany after tx.turn.deleteMany
TurnRows(sortedTurns) ==
    [k \in 1..Len(sortedTurns) |->
        [type |-> sortedTurns[k].type, payload |-> sortedTurns[k].payload,
         startTime |-> sortedTurns[k].startTime,
         voiceflowTurnId |-> sortedTurns[k].turnID,
         sequence |-> sortedTurns[k].sequence]]

\* prisma.$transaction commits: the post-success delay starts
CommitReturn(s, k) ==
    /\ IsUnitAt(s, k, "commit")
    /\ LET u == unit[s][k]
           id == IdOf(s, k)
       IN  /\ transcript' = [transcript EXCEPT ![id] = CommitRow(@, u.turns, u.analysis)]
           /\ turn' = [turn EXCEPT ![id] = TurnRows(u.turns)]
           /\ Continue(s, [unit[s] EXCEPT ![k] =
                  [u EXCEPT !.st = "delay", !.turns = <<>>, !.analysis = NoAnalysis]])
    /\ UNCHANGED <<libraryVars, res, env, faultsLeft, lastTranscriptNumber, body,
                   sortedTranscripts, nextNumber, existingTranscriptMap,
                   transcriptsWithNumbers, listGets, thrown>>

\* the transaction fails and is rolled back
CommitThrows(s, k) ==
    /\ IsUnitAt(s, k, "commit")
    /\ CanFail(IdOf(s, k))
    /\ faultsLeft' = faultsLeft - 1
    /\ Continue(s, [unit[s] EXCEPT ![k] = Caught(unit[s][k])])
    /\ UNCHANGED <<libraryVars, res, env, dbVars, body, sortedTranscripts,
                   nextNumber, existingTranscriptMap, transcriptsWithNumbers, listGets,
                   thrown>>

\* the delay after a success is over: break, the unit's promise is fulfilled
DelayElapsed(s, k) ==
    /\ IsUnitAt(s, k, "delay")
    /\ Continue(s, [unit[s] EXCEPT ![k] = [@ EXCEPT !.st = "fulfilled"]])
    /\ UNCHANGED <<libraryVars, res, env, faultsLeft, dbVars, body,
                   sortedTranscripts, nextNumber, existingTranscriptMap,
                   transcriptsWithNumbers, listGets, thrown>>

\* the backoff of 2^retryCount seconds is over: the loop upserts again
BackoffElapsed(s, k) ==
    /\ IsUnitAt(s, k, "backoff")
    /\ Continue(s, [unit[s] EXCEPT ![k] = Issue(@, "upsert")])
    /\ UNCHANGED <<libraryVars, res, env, faultsLeft, dbVars, body,
                   sortedTranscripts, nextNumber, existingTranscriptMap,
                   transcriptsWithNumbers, listGets, thrown>>

----------------------------------------------------------------------------

Positions == 1..(BATCH_SIZE + MaxBeyondChunk)

SyncNext(s) ==
    \/ Trigger(s)
    \/ Validate(s)
    \/ FindApiKeyReturn(s)
    \/ GetTranscriptsReturn(s)
    \/ GetTranscriptsThrows(s)
    \/ FindProjectReturn(s)
    \/ ReadCounterReturn(s)
    \/ FindExistingReturn(s)
    \/ IncrementReturn(s)
    \/ DatabaseThrows(s)
    \/ BatchReturn(s)

UnitNext(s, k) ==
    \/ UpsertReturn(s, k)
    \/ UpsertThrows(s, k)
    \/ GetReturn(s, k)
    \/ GetThrows(s, k)
    \/ GetWaitElapsed(s, k)
    \/ AnalyzeReturn(s, k)
    \/ CommitReturn(s, k)
    \/ CommitThrows(s, k)
    \/ DelayElapsed(s, k)
    \/ BackoffElapsed(s, k)

Next ==
    \/ \E s \in Syncs : SyncNext(s)
    \/ \E s \in Syncs : \E k \in Positions : UnitNext(s, k)

Spec == Init /\ [][Next]_vars

SpecSerial == InitSerial /\ [][Next]_vars

SpecBatch == InitBatch /\ [][Next]_vars

SpecTally == InitTally /\ [][Next]_vars

\* every pending call returns or fails, every timer fires, the event loop runs
\* every continuation that is ready
Fairness ==
    \A s \in Syncs :
        /\ WF_vars(SyncNext(s))
        /\ \A k \in 1..MaxLiveTranscripts : WF_vars(UnitNext(s, k))

SpecLive == InitLive /\ [][Next]_vars /\ Fairness

----------------------------------------------------------------------------
(* withRetry(operation, retries, delay), run on its own: the operation      *)
(* returns or throws at each attempt as it likes.                           *)

pipelineVars == <<env, faultsLeft, dbVars, syncVars, res>>

\* no webhook arrives
NoSync ==
    /\ Environment(FALSE, 0, {}, {}, {})
    /\ faultsLeft = 0
    /\ InitDb
    /\ InitSync

BaseDelays == {0, 250, 1000}

Errors == {"ECONNRESET", "ETIMEDOUT"}

InitRetry ==
    /\ NoSync
    /\ save = NoSave
    /\ tx = NoTx
    /\ \E retries \in 0..MaxAttempts : \E delay \in BaseDelays :
          retry = [NoRetry EXCEPT !.st = "start", !.retries = retries, !.delay = delay]

\* for (...; i < retries; ...) with i = r.i: the operation is invoked, or the loop
\* is left and lastError thrown
LoopTest(r) ==
    IF r.i < r.retries
    THEN [r EXCEPT !.st = "calling", !.calls = @ + 1]
    ELSE [r EXCEPT !.st = "thrown"]

\* a wait that would grow by delay, not double
BackoffLinear(delay, i) == delay * (i + 1)

\* setTimeout(resolve, delay * Math.pow(2, i))
Backoff(delay, i) == delay * 2^i

\* withRetry is called: let lastError, i = 0
RetryStart ==
    /\ retry.st = "start"
    /\ retry' = LoopTest(retry)
    /\ UNCHANGED <<pipelineVars, save, tx>>

\* return await operation()
OperationReturns ==
    /\ retry.st = "calling"
    /\ retry' = [retry EXCEPT !.st = "returned"]
    /\ UNCHANGED <<pipelineVars, save, tx>>

\* a catch that would keep the error of the first failed attempt
OperationThrowsKeepingFirst ==
    /\ retry.st = "calling"
    /\ \E error \in Errors :
          LET caught == [retry EXCEPT !.lastError = IF @ = "undefined" THEN error ELSE @,
                                      !.errors = Append(@, error)]
          IN  IF retry.i < retry.retries - 1
              THEN retry' = [caught EXCEPT !.st = "waiting",
                                           !.waits = Append(@, Backoff(retry.delay, retry.i))]
              ELSE retry' = LoopTest([caught EXCEPT !.i = @ + 1])
    /\ UNCHANGED <<pipelineVars, save, tx>>

\* catch (error): lastError = error; the wait starts, or after the last attempt
\* i++ ends the loop
OperationThrows ==
    /\ retry.st = "calling"
    /\ \E error \in Errors :
          LET caught == [retry EXCEPT !.lastError = error, !.errors = Append(@, error)]
          IN  IF retry.i < retry.retries - 1
              THEN retry' = [caught EXCEPT !.st = "waiting",
                                           !.waits = Append(@, Backoff(retry.delay, retry.i))]
              ELSE retry' = LoopTest([caught EXCEPT !.i = @ + 1])
    /\ UNCHANGED <<pipelineVars, save, tx>>

\* the timer fires: i++ and the next attempt
WaitElapsed ==
    /\ retry.st = "waiting"
    /\ retry' = LoopTest([retry EXCEPT !.i = @ + 1])
    /\ UNCHANGED <<pipelineVars, save, tx>>

RetryNext ==
    \/ RetryStart
    \/ OperationReturns
    \/ OperationThrows
    \/ WaitElapsed

SpecRetry == InitRetry /\ [][RetryNext]_vars

----------------------------------------------------------------------------
(* preassignTranscriptNumbers run on its own, on any short list of          *)
(* summaries: the platform may list a transcript more than once.            *)

\* the lists of up to MaxAssignListed summaries of the transcripts 1..MaxAssignIds
SummaryLists ==
    UNION {[1..n -> 1..MaxAssignIds] : n \in 0..MaxAssignListed}

\* the rows 1..n numbered in the order of their ids
NumberedRows(known) ==
    [id \in known |-> NewRow(Cardinality({o \in known : o <= id}))]

\* some transcripts have a row; the counter is at the highest number or one beyond
\* (a number handed out to a unit that failed); the sync has sorted the list and
\* found the project
InitAssign ==
    /\ Environment(FALSE, 1, {}, {}, {})
    /\ faultsLeft = 0
    /\ LibraryIdle
    /\ res = [s \in Syncs |-> IF s = 1 THEN Accepted ELSE NotAnswered]
    /\ body = [s \in Syncs |-> IF s = 1 THEN "known" ELSE ""]
    /\ pc = [s \in Syncs |-> IF s = 1 THEN "readCounter" ELSE "Idle"]
    /\ nextNumber = [s \in Syncs |-> 0]
    /\ existingTranscriptMap = [s \in Syncs |-> EmptyMap]
    /\ transcriptsWithNumbers = [s \in Syncs |-> <<>>]
    /\ chunkStart = [s \in Syncs |-> 0]
    /\ unit = [s \in Syncs |-> <<>>]
    /\ listGets = [s \in Syncs |-> IF s = 1 THEN 1 ELSE 0]
    /\ thrown = [s \in Syncs |-> "none"]
    /\ \E known \in SUBSET (1..MaxAssignIds) : \E spent \in 0..1 :
          /\ transcript = NumberedRows(known)
          /\ turn = [id \in known |-> <<>>]
          /\ lastTranscriptNumber = Cardinality(known) + spent
    /\ \E listed \in SummaryLists :
          sortedTranscripts =
              [s \in Syncs |-> IF s = 1 THEN SortByCreatedAt(listed) ELSE <<>>]

AssignNext ==
    \/ ReadCounterReturn(1)
    \/ FindExistingReturn(1)
    \/ IncrementReturn(1)

SpecAssign == InitAssign /\ [][AssignNext]_vars

----------------------------------------------------------------------------
(* getTranscriptContent's normalization and saveTranscriptTurns up to its   *)
(* transaction, run on their own on any short array of turns.               *)

\* type and payload shape of a turn
TurnKinds ==
    {<<"text", "slate">>, <<"text", "empty">>, <<"request", "query">>,
     <<"choice", "empty">>, <<"block", "empty">>}

\* startTime of a turn: NoTime when the field is missing
TurnTimes == {1000, 6000, 7500, NoTime}

\* the arrays of up to MaxTurns turns; turnID is the position on arrival
TurnArrays ==
    UNION {[1..n -> TurnKinds \X TurnTimes] : n \in 0..MaxTurns}

ArrayOf(a) == [k \in 1..Len(a) |-> Turn(k, a[k][1][1], a[k][2], a[k][1][2])]

\* the value of a key that a JSON object does not have
Undefined == "undefined"

\* a JSON object without the keys topic_de and name
PartialCompletion == Completion("de", "topic", Undefined, Undefined)

\* what the analysis call may end with: a JSON body with or without all its keys,
\* a network error, no content, a body that does not parse
AnalysisOutcomes ==
    Completions \cup {PartialCompletion, [kind |-> "network error"],
                     [kind |-> "no content"], [kind |-> "unparsable"]}

\* the bodies the turn endpoint may answer with
TurnBodies == {ArrayBody(ArrayOf(a)) : a \in TurnArrays} \cup {NonArrayBody}

\* either the turn GET answers, or saveTranscriptTurns is called with an array
InitSave ==
    /\ NoSync
    /\ retry = NoRetry
    /\ tx = NoTx
    /\ \/ \E response \in TurnBodies :
             save = [NoSave EXCEPT !.st = "fetch", !.response = response]
       \/ \E a \in TurnArrays :
             save = [NoSave EXCEPT !.st = "save", !.turns = ArrayOf(a)]

\* getTranscriptContent returns the sorted, filtered turns
ContentReturns ==
    /\ save.st = "fetch"
    /\ save' = [save EXCEPT !.st = "save", !.turns = FetchedTurns(save.response)]
    /\ UNCHANGED <<pipelineVars, retry, tx>>

\* an analyzeTranscript that would call the analysis service whatever the messages
SaveSortsAlwaysCalling ==
    /\ save.st = "save"
    /\ \E sortedTurns \in {SortedWithSequence(save.turns)} :
          save' = [save EXCEPT !.st = "analyze", !.sortedTurns = sortedTurns,
                               !.metrics = calculateTranscriptMetrics(sortedTurns),
                               !.messages = extractMessages(sortedTurns),
                               !.calls = @ + 1]
    /\ UNCHANGED <<pipelineVars, retry, tx>>

\* a saveTranscriptTurns that would measure the turns in the order it received them
SaveSortsMeasuringArrival ==
    /\ save.st = "save"
    /\ \E sortedTurns \in {SortedWithSequence(save.turns)} :
          save' = IF extractMessages(sortedTurns) = <<>>
                  THEN [save EXCEPT !.st = "commit", !.sortedTurns = sortedTurns,
                                    !.metrics = calculateTranscriptMetrics(save.turns),
                                    !.analysis = FallbackAnalysis]
                  ELSE [save EXCEPT !.st = "analyze", !.sortedTurns = sortedTurns,
                                    !.metrics = calculateTranscriptMetrics(save.turns),
                                    !.messages = extractMessages(sortedTurns),
                                    !.calls = @ + 1]
    /\ UNCHANGED <<pipelineVars, retry, tx>>

\* saveTranscriptTurns sorts and computes the metrics; analyzeTranscript extracts
\* the messages and answers with the fallback, or calls the analysis service
SaveSorts ==
    /\ save.st = "save"
    /\ \E sortedTurns \in {SortedWithSequence(save.turns)} :
          save' = IF extractMessages(sortedTurns) = <<>>
                  THEN [save EXCEPT !.st = "commit", !.sortedTurns = sortedTurns,
                                    !.metrics = calculateTranscriptMetrics(sortedTurns),
                                    !.analysis = FallbackAnalysis]
                  ELSE [save EXCEPT !.st = "analyze", !.sortedTurns = sortedTurns,
                                    !.metrics = calculateTranscriptMetrics(sortedTurns),
                                    !.messages = extractMessages(sortedTurns),
                                    !.calls = @ + 1]
    /\ UNCHANGED <<pipelineVars, retry, tx>>

\* an analyzeTranscript that would call once more after a failed call
AnalysisEndsRetrying ==
    /\ save.st = "analyze"
    /\ \E outcome \in AnalysisOutcomes :
          save' = IF outcome.kind # "json" /\ save.calls < 2
                  THEN [save EXCEPT !.outcome = outcome, !.calls = @ + 1]
                  ELSE [save EXCEPT !.st = "commit", !.outcome = outcome,
                                    !.analysis = AnalysisFrom(outcome)]
    /\ UNCHANGED <<pipelineVars, retry, tx>>

\* the analysis call ends: analyzeTranscript returns, the transaction is next
AnalysisEnds ==
    /\ save.st = "analyze"
    /\ \E outcome \in AnalysisOutcomes :
          save' = [save EXCEPT !.st = "commit", !.outcome = outcome,
                               !.analysis = AnalysisFrom(outcome)]
    /\ UNCHANGED <<pipelineVars, retry, tx>>

SaveNext ==
    \/ ContentReturns
    \/ SaveSorts
    \/ AnalysisEnds

SpecSave == InitSave /\ [][SaveNext]_vars

----------------------------------------------------------------------------
(* The same fetch and save up to the end of the transaction, for a          *)
(* transcript whose row the unit's upsert has just created or updated.      *)

\* the row and the turns a commit leaves
CommittedRow(number, sortedTurns, analysis) ==
    CommitRow(NewRow(number), sortedTurns, analysis)

\* the turns an earlier sync persisted
EarlierTurns ==
    <<Turn(8, "request", 500, "query"), Turn(9, "text", 900, "slate")>>

\* the row is new and has no turns, or an earlier sync has committed it
InitStore ==
    /\ Environment(FALSE, 0, {}, {}, {})
    /\ faultsLeft = 0
    /\ InitSync
    /\ retry = NoRetry
    /\ tx = NoTx
    /\ lastTranscriptNumber = 1
    /\ \/ /\ transcript = Put(EmptyMap, 1, UpsertCreate([id |-> 1, assignedNumber |-> 1]))
          /\ turn = Put(EmptyMap, 1, <<>>)
       \/ \E earlier \in {SortedWithSequence(EarlierTurns)} :
          /\ transcript = Put(EmptyMap, 1,
                 UpsertUpdate(CommittedRow(1, earlier, AnalysisFrom(GoodCompletion)),
                              [id |-> 1, assignedNumber |-> 1]))
          /\ turn = Put(EmptyMap, 1, TurnRows(earlier))
    /\ \E response \in TurnBodies :
          save = [NoSave EXCEPT !.st = "fetch", !.id = 1, !.response = response,
                               !.earlier = turn[1]]

\* a transaction that would insert the turns without deleting the earlier ones
SaveCommitsAppending ==
    /\ save.st = "commit"
    /\ transcript' = [transcript EXCEPT ![save.id] =
           [@ EXCEPT !.metrics = save.metrics,
                     !.language = save.analysis.language,
                     !.topic = save.analysis.topic,
                     !.topicTranslations = save.analysis.topicTranslations,
                     !.name = save.analysis.name]]
    /\ turn' = [turn EXCEPT ![save.id] = @ \o TurnRows(save.sortedTurns)]
    /\ save' = [save EXCEPT !.st = "saved"]
    /\ UNCHANGED <<env, faultsLeft, lastTranscriptNumber, syncVars, res, retry, tx>>

\* a field of update's data: an undefined value leaves the column as it is
Written(new, old) == IF new = Undefined THEN old ELSE new

\* the transaction of saveTranscriptTurns commits: update, deleteMany, createMany
SaveCommits ==
    /\ save.st = "commit"
    /\ transcript' = [transcript EXCEPT ![save.id] =
           [@ EXCEPT !.metrics = save.metrics,
                     !.language = Written(save.analysis.language, @),
                     !.topic = Written(save.analysis.topic, @),
                     !.topicTranslations = save.analysis.topicTranslations,
                     !.name = Written(save.analysis.name, @)]]
    /\ turn' = [turn EXCEPT ![save.id] = TurnRows(save.sortedTurns)]
    /\ save' = [save EXCEPT !.st = "saved"]
    /\ UNCHANGED <<env, faultsLeft, lastTranscriptNumber, syncVars, res, retry, tx>>

StoreNext ==
    \/ ContentReturns
    \/ SaveSorts
    \/ AnalysisEnds
    \/ SaveCommits

SpecStore == InitStore /\ [][StoreNext]_vars

----------------------------------------------------------------------------
(* One unit on a transcript an earlier sync has committed: its upsert, then *)
(* the interactive transaction of saveTranscriptTurns statement by          *)
(* statement. The statements issued on tx work on the transaction's own     *)
(* view; the database shows it when the transaction commits and never when  *)
(* the callback throws (prisma.$transaction rolls back).                    *)

\* the arrays of up to MaxCommitTurns turns
ShortArrays ==
    UNION {[1..n -> TurnKinds \X TurnTimes] : n \in 0..MaxCommitTurns}

\* what saveTranscriptTurns is about to commit for an array the platform sent
SortedFor(a) == SortedWithSequence(FetchedTurns(ArrayBody(ArrayOf(a))))

Analyses == {FallbackAnalysis, AnalysisFrom(GoodCompletion)}

\* transcript 1 has been committed before; the unit of a later sync starts with
\* other turns to save
InitCommit ==
    /\ Environment(FALSE, 0, {}, {}, {})
    /\ faultsLeft = 0
    /\ InitSync
    /\ retry = NoRetry
    /\ save = NoSave
    /\ lastTranscriptNumber = 1
    /\ \E before \in ShortArrays : \E after \in ShortArrays :
       \E analysisBefore \in Analyses : \E analysisAfter \in Analyses :
          /\ transcript = Put(EmptyMap, 1,
                              CommittedRow(1, SortedFor(before), analysisBefore))
          /\ turn = Put(EmptyMap, 1, TurnRows(SortedFor(before)))
          /\ tx = [NoTx EXCEPT !.st = "upsert", !.id = 1,
                               !.sortedTurns = SortedFor(after),
                               !.analysis = analysisAfter,
                               !.previous = [row |-> transcript[1], turns |-> turn[1]]]

\* prisma.transcript.upsert takes its update branch; the turns are fetched, sorted
\* and analyzed
UnitUpserts ==
    /\ tx.st = "upsert"
    /\ transcript' = [transcript EXCEPT ![tx.id] =
           UpsertUpdate(@, [id |-> tx.id, assignedNumber |-> @.transcriptNumber])]
    /\ tx' = [tx EXCEPT !.st = "begin"]
    /\ UNCHANGED <<env, faultsLeft, lastTranscriptNumber, turn, syncVars, res, retry,
                   save>>

\* prisma.$transaction starts the callback
TxBegins ==
    /\ tx.st = "begin"
    /\ tx' = [tx EXCEPT !.st = "update", !.transcript = transcript, !.turn = turn]
    /\ UNCHANGED <<pipelineVars, retry, save>>

\* tx.transcript.update
TxUpdate ==
    /\ tx.st = "update"
    /\ tx' = [tx EXCEPT !.st = "deleteMany",
                        !.transcript[tx.id] = CommitRow(@, tx.sortedTurns, tx.analysis)]
    /\ UNCHANGED <<pipelineVars, retry, save>>

\* a deleteMany that would be issued on prisma instead of tx
DeleteManyOutsideTx ==
    /\ tx.st = "deleteMany"
    /\ turn' = [turn EXCEPT ![tx.id] = <<>>]
    /\ tx' = [tx EXCEPT !.st = "createMany", !.turn[tx.id] = <<>>]
    /\ UNCHANGED <<env, faultsLeft, lastTranscriptNumber, transcript, syncVars, res,
                   retry, save>>

\* tx.turn.deleteMany
TxDeleteMany ==
    /\ tx.st = "deleteMany"
    /\ tx' = [tx EXCEPT !.st = "createMany", !.turn[tx.id] = <<>>]
    /\ UNCHANGED <<pipelineVars, retry, save>>

\* tx.turn.createMany
TxCreateMany ==
    /\ tx.st = "createMany"
    /\ tx' = [tx EXCEPT !.st = "commitTx",
                        !.turn[tx.id] = @ \o TurnRows(tx.sortedTurns)]
    /\ UNCHANGED <<pipelineVars, retry, save>>

\* the callback has returned: the transaction commits
TxCommits ==
    /\ tx.st = "commitTx"
    /\ transcript' = tx.transcript
    /\ turn' = tx.turn
    /\ tx' = [tx EXCEPT !.st = "committed"]
    /\ UNCHANGED <<env, faultsLeft, lastTranscriptNumber, syncVars, res, retry, save>>

\* a statement or the commit fails: the transaction is rolled back and
\* saveTranscriptTurns rethrows
TxThrows ==
    /\ tx.st \in {"update", "deleteMany", "createMany", "commitTx"}
    /\ tx' = [tx EXCEPT !.st = "rolledBack", !.failedAt = tx.st,
                        !.transcript = EmptyMap, !.turn = EmptyMap]
    /\ UNCHANGED <<pipelineVars, retry, save>>

CommitNext ==
    \/ UnitUpserts
    \/ TxBegins
    \/ TxUpdate
    \/ TxDeleteMany
    \/ TxCreateMany
    \/ TxCommits
    \/ TxThrows

SpecCommit == InitCommit /\ [][CommitNext]_vars

----------------------------------------------------------------------------
(* Properties *)

\* the assigner of sync s has handed out its numbers
HasAssigned(s) == pc[s] \in {"ProcessingBatch", "Done"}

Rejected(s) == {k \in 1..Len(unit[s]) : unit[s][k].st = "rejected"}

Fulfilled(s) == {k \in 1..Len(unit[s]) : unit[s][k].st = "fulfilled"}

\* C1: across the two sync invocations of the project, whatever the order of
\* their steps, a transcript number is never handed to two different external
\* transcript ids.
NoDoubleAssignment ==
    \A s1 \in Syncs : \A s2 \in Syncs :
        \A k1 \in 1..Len(transcriptsWithNumbers[s1]) :
            \A k2 \in 1..Len(transcriptsWithNumbers[s2]) :
                transcriptsWithNumbers[s1][k1].assignedNumber
                    = transcriptsWithNumbers[s2][k2].assignedNumber
                => transcriptsWithNumbers[s1][k1].id = transcriptsWithNumbers[s2][k2].id

\* C4: the transcriptNumber of a persisted row never changes once the row exists
\* (and the row stays), whatever syncs run and whichever units fail.
NumberNeverChanges ==
    [][\A id \in DOMAIN transcript :
          /\ id \in DOMAIN transcript'
          /\ transcript'[id].transcriptNumber = transcript[id].transcriptNumber]_vars

\* a unit whose sync assigned another number than the row holds has gone through
\* the update branch of the upsert and through the commit
UpdatedRowKeptItsNumber ==
    \E s \in Syncs : \E k \in 1..Len(unit[s]) :
        /\ unit[s][k].st = "delay"
        /\ transcript[IdOf(s, k)].transcriptNumber
               # transcriptsWithNumbers[s][k].assignedNumber

PhaseSteps ==
    {<<"Idle", "ListingTranscripts">>, <<"ListingTranscripts", "AssigningNumbers">>,
     <<"AssigningNumbers", "ProcessingBatch">>, <<"ProcessingBatch", "Done">>,
     <<"ListingTranscripts", "Failed">>, <<"AssigningNumbers", "Failed">>}

\* C9: a sync moves Idle, ListingTranscripts, AssigningNumbers, ProcessingBatch,
\* Done in that order, and to Failed only from ListingTranscripts or
\* AssigningNumbers: never once ProcessingBatch has been entered.
PhaseOrder ==
    [][\A s \in Syncs :
          Phase(pc[s]) # Phase(pc'[s])
          => <<Phase(pc[s]), Phase(pc'[s])>> \in PhaseSteps]_vars

\* a sync is done although one of its units exhausted its retries
DoneDespiteRejectedUnit ==
    \E s \in Syncs : pc[s] = "Done" /\ Rejected(s) # {}

ListingErrors == {"ProjectNotFound", "AxiosError", "InvalidResponseFormat"}

\* C10: when the project does not exist, or the list call fails or answers with a
\* body that is no array, the sync is Failed with that error thrown to the caller;
\* the list GET was issued at most once, and not at all (like any other outbound
\* call) without a project; no step of the listing changes the counter, a
\* transcript row or a turn row.
ListingFailureIsFatalAndHarmless ==
    /\ [](\A s \in Syncs :
            /\ thrown[s] \in ListingErrors
               => /\ pc[s] = "Failed"
                  /\ listGets[s] <= 1
                  /\ thrown[s] = "ProjectNotFound" => listGets[s] = 0
                  /\ unit[s] = <<>>
            /\ Phase(pc[s]) = "ListingTranscripts"
               => /\ listGets[s] <= 1
                  /\ unit[s] = <<>>)
    /\ [][\A s \in Syncs :
            Phase(pc[s]) = "ListingTranscripts" /\ pc'[s] # pc[s]
            => UNCHANGED dbVars]_vars

\* a sync failed on its list response after its one GET, beside persisted rows
ListFailedBesideRows ==
    \E s \in Syncs :
        /\ pc[s] = "Failed"
        /\ thrown[s] = "InvalidResponseFormat"
        /\ listGets[s] = 1
        /\ DOMAIN transcript # {}
        /\ lastTranscriptNumber > 0

\* the positions of sync s whose transcript had no row when findMany ran
NewPositions(s) ==
    {k \in 1..Len(transcriptsWithNumbers[s]) :
        transcriptsWithNumbers[s][k].id \notin DOMAIN existingTranscriptMap[s]}

\* no later sync has read the counter since sync s ran its assigner
LatestRun(s) == \A o \in Syncs : o > s => pc[o] \in {"Idle", "validate", "findApiKey",
                                                     "getTranscripts", "findProject",
                                                     "readCounter", "Failed"}

\* C2: one run of the assigner with prior counter value L (serial syncs): the
\* batch is in creation-time-ascending order, the k-th new transcript of it gets
\* L+k, a known transcript gets its stored number, and the counter is L+N
\* afterwards (N the number of new transcripts).
ContiguousNumbering ==
    \A s \in Syncs :
        HasAssigned(s)
        => LET tws == transcriptsWithNumbers[s]
               L == nextNumber[s] - 1
               new == NewPositions(s)
           IN  /\ \A j \in 1..Len(tws) : \A k \in 1..Len(tws) :
                      j < k => CreatedAt(tws[j].id) <= CreatedAt(tws[k].id)
               /\ \A k \in 1..Len(tws) :
                      IF k \in new
                      THEN tws[k].assignedNumber
                               = L + Cardinality({j \in new : j <= k})
                      ELSE /\ tws[k].id \in DOMAIN transcript
                           /\ tws[k].assignedNumber
                                  = transcript[tws[k].id].transcriptNumber
               /\ {tws[k].assignedNumber : k \in new} = (L + 1)..(L + Cardinality(new))
               /\ LatestRun(s) => lastTranscriptNumber = L + Cardinality(new)

\* a run with two new transcripts around a known one, on a counter already used
TwoNewAroundOneKnown ==
    \E s \in Syncs :
        /\ HasAssigned(s)
        /\ nextNumber[s] > 1
        /\ Len(transcriptsWithNumbers[s]) = 3
        /\ NewPositions(s) = {1, 3}
        /\ lastTranscriptNumber = nextNumber[s] + 1

\* C3: a second run of the assigner with the same summary set gives every
\* transcript the number of the first run, allocates no number and leaves the
\* counter as the first run left it.
IdempotentNumbering ==
    (/\ pc[1] = "Done"
     /\ HasAssigned(2)
     /\ sortedTranscripts[2] = sortedTranscripts[1])
    => /\ transcriptsWithNumbers[2] = transcriptsWithNumbers[1]
       /\ NewPositions(2) = {}
       /\ lastTranscriptNumber = nextNumber[2] - 1

\* C5: a transcript id listed by a later sync gets the number the first sync
\* that listed it gave it, also when its unit exhausted its retries there.
SameNumberForever ==
    \A k1 \in 1..Len(transcriptsWithNumbers[1]) :
        \A k2 \in 1..Len(transcriptsWithNumbers[2]) :
            (/\ HasAssigned(1)
             /\ HasAssigned(2)
             /\ IdOf(1, k1) = IdOf(2, k2))
            => transcriptsWithNumbers[2][k2].assignedNumber
                   = transcriptsWithNumbers[1][k1].assignedNumber

\* C6: at most 5 units of a batch are started and not settled, a unit in its
\* backoff or in its delay after a success included, whatever the batch size and
\* the chunk it belongs to.
AtMostFiveInFlight ==
    \A s \in Syncs : Cardinality(Active(unit[s])) <= RATE_LIMIT

\* the limit is reached with a unit in its backoff, one in its delay, one waiting
FullWithBackoffAndDelay ==
    \E s \in Syncs :
        /\ Cardinality(Active(unit[s])) = RATE_LIMIT
        /\ \E k \in Active(unit[s]) : unit[s][k].st = "backoff"
        /\ \E k \in Active(unit[s]) : unit[s][k].st = "delay"
        /\ \E k \in 1..Len(unit[s]) : unit[s][k].st = "queued"

\* what a unit that succeeded leaves in the database for transcript id
Persisted(id) ==
    /\ id \in DOMAIN transcript
    /\ id \in DOMAIN turn
    /\ \E response \in ContentsOf(id) :
        \E fetched \in {FetchedTurns(response)} :
        \E sortedTurns \in {SortedWithSequence(fetched)} :
              /\ turn[id] = TurnRows(sortedTurns)
              /\ transcript[id].metrics = calculateTranscriptMetrics(sortedTurns)
              /\ \E analysis \in {FallbackAnalysis}
                                    \cup {AnalysisFrom(c) : c \in Completions} :
                    transcript[id] =
                        CommitRow(NewRow(transcript[id].transcriptNumber),
                                  sortedTurns, analysis)

\* C7: when a unit of the batch has exhausted its retries, the sync is not
\* Failed, every transcript whose unit succeeded is persisted (row, metrics,
\* analysis, turns: as long as no later sync writes the rows again), and the sync
\* is Done only with all units settled; the position of the failing transcript
\* does not matter.
PartialFailureTolerated ==
    \A s \in Syncs :
        /\ Rejected(s) # {} => pc[s] \in {"ProcessingBatch", "Done"}
        /\ LatestRun(s) => \A k \in Fulfilled(s) : Persisted(IdOf(s, k))
        /\ pc[s] = "Done"
           => \A k \in 1..Len(unit[s]) : unit[s][k].st \in SettledStates

\* the middle transcript of three failed for good, its neighbours are persisted
MiddleRejectedOthersPersisted ==
    \E s \in Syncs :
        /\ pc[s] = "Done"
        /\ LatestRun(s)
        /\ Len(unit[s]) = 3
        /\ Rejected(s) = {2}
        /\ Fulfilled(s) = {1, 3}
        /\ IdOf(s, 2) \notin DOMAIN transcript
        /\ turn[IdOf(s, 3)] # <<>>

\* C8: with every call returning and fair scheduling, a sync that enters
\* ProcessingBatch reaches Done, and at Done every transcript of the batch has
\* been attempted: its unit succeeded or exhausted its MAX_RETRIES attempts, no
\* unit is left unstarted because another one failed.
BatchRunsToCompletion ==
    \A s \in Syncs :
        (pc[s] = "ProcessingBatch")
        ~> (/\ pc[s] = "Done"
            /\ Len(unit[s]) = Len(sortedTranscripts[s])
            /\ \A k \in 1..Len(unit[s]) :
                  \/ unit[s][k].st = "fulfilled"
                  \/ unit[s][k].st = "rejected" /\ unit[s][k].retryCount = MAX_RETRIES)

\* a batch completed with its first unit out of retries and a later one fulfilled
CompletedPastExhaustedUnit ==
    \E s \in Syncs :
        /\ pc[s] = "Done"
        /\ unit[s] # <<>>
        /\ unit[s][1].st = "rejected"
        /\ unit[s][1].retryCount = MAX_RETRIES
        /\ unit[s][Len(unit[s])].st = "fulfilled"

\* C11: with retries >= 1, when withRetry throws, the operation has been invoked
\* exactly retries times (never more while it runs) and all of them failed, and
\* the error thrown is the error of the last attempt.
ExhaustionThrowsLastError ==
    retry.retries >= 1
    => /\ retry.calls <= retry.retries
       /\ retry.st = "thrown"
          => /\ retry.calls = retry.retries
             /\ Len(retry.errors) = retry.retries
             /\ retry.lastError = retry.errors[Len(retry.errors)]

\* every one of MaxAttempts attempts failed, the last with another error than the
\* first
ExhaustedWithOtherLastError ==
    /\ retry.st = "thrown"
    /\ retry.retries = MaxAttempts
    /\ retry.calls = MaxAttempts
    /\ retry.lastError # retry.errors[1]

\* C12: the wait after failed attempt i (from 0) is delay * 2^i, so the waits
\* double; there is one wait per failed attempt that another attempt follows: none
\* after the last failed attempt, none after an attempt that succeeded.
WaitsDouble ==
    /\ \A j \in 1..Len(retry.waits) : retry.waits[j] = retry.delay * 2^(j - 1)
    /\ \A j \in 2..Len(retry.waits) : retry.waits[j] = 2 * retry.waits[j - 1]
    /\ retry.st = "waiting" => Len(retry.waits) = Len(retry.errors)
    /\ retry.st = "calling" => Len(retry.waits) = Len(retry.errors)
    /\ retry.st = "returned" => Len(retry.waits) = Len(retry.errors)
    /\ retry.st = "thrown" /\ retry.retries >= 1
       => Len(retry.waits) = Len(retry.errors) - 1

\* four attempts of base delay 1000 failed: three waits, none after the fourth
ThreeWaitsThenThrown ==
    /\ retry.st = "thrown"
    /\ Len(retry.errors) = 4
    /\ retry.waits = <<1000, 2000, 4000>>

\* C13: a unit is retried from its upsert on up to 3 times, after waits of 2 s,
\* 4 s and 8 s, and is marked failed (rejected) only once these three retries
\* are used up.
ThreeRetriesBeforeFailed ==
    \A s \in Syncs : \A k \in 1..Len(unit[s]) :
        /\ \A j \in 1..Len(unit[s][k].waits) : unit[s][k].waits[j] = 2^j * 1000
        /\ unit[s][k].st = "rejected" => unit[s][k].waits = <<2000, 4000, 8000>>

\* a request and a text turn, in either order
IsRequestTextPair(x, y) ==
    \/ x.type = "request" /\ y.type = "text"
    \/ x.type = "text" /\ y.type = "request"

\* C14: whatever the types of the turns, the sorted turns (all of them with a
\* timestamp) are in ascending order of timestamp; of two turns with the same
\* timestamp a request comes before a text, and any other two are in the order
\* they arrived in (turnID is the arrival position).
TurnsTotallyOrdered ==
    (/\ save.st \in {"analyze", "commit"}
     /\ \A k \in 1..Len(save.sortedTurns) : save.sortedTurns[k].startTime # NoTime)
    => \A a \in 1..Len(save.sortedTurns) : \A b \in 1..Len(save.sortedTurns) :
          a < b
          => LET x == save.sortedTurns[a]
                 y == save.sortedTurns[b]
             IN  /\ x.startTime <= y.startTime
                 /\ x.startTime = y.startTime
                    => /\ ~(x.type = "text" /\ y.type = "request")
                       /\ ~IsRequestTextPair(x, y) => x.turnID < y.turnID

\* the metrics of the sorted turns are computed, and every turn has a timestamp
MetricsOfTimedTurns ==
    /\ save.st \in {"analyze", "commit"}
    /\ \A k \in 1..Len(save.sortedTurns) : save.sortedTurns[k].startTime # NoTime

\* C15: for turns that all have a timestamp, messageCount is the number of text
\* and request turns, firstResponse and lastResponse are the timestamps of the
\* first and the last turn, duration is the time between them in whole seconds
\* (to the nearest second: request@t0, text@t0+5s give 2 messages and 5); without
\* turns messageCount is 0 and the other three are null.
MetricsAsSpecified ==
    MetricsOfTimedTurns
    => LET turns == save.sortedTurns
           n == Len(turns)
           m == save.metrics
       IN  /\ m.messageCount
                  = Cardinality({k \in 1..n : turns[k].type \in {"text", "request"}})
           /\ n = 0 => /\ m.messageCount = 0
                       /\ m.firstResponse = NoTime
                       /\ m.lastResponse = NoTime
                       /\ m.duration = NoTime
           /\ n > 0 => /\ m.firstResponse = turns[1].startTime
                       /\ m.lastResponse = turns[n].startTime
                       /\ m.duration \in Nat
                       /\ 1000 * m.duration <= (m.lastResponse - m.firstResponse) + 500
                       /\ 1000 * m.duration > (m.lastResponse - m.firstResponse) - 500
           /\ (/\ n = 2
               /\ turns[1].type = "request"
               /\ turns[2].type = "text"
               /\ turns[2].startTime = turns[1].startTime + 5000)
              => m.messageCount = 2 /\ m.duration = 5

\* request@1000, choice@1000 and text@7500 were measured: 2 messages, 7 seconds
RequestChoiceTextMeasured ==
    /\ MetricsOfTimedTurns
    /\ Len(save.sortedTurns) = 3
    /\ save.sortedTurns[1].type = "request"
    /\ save.sortedTurns[2].type = "choice"
    /\ save.sortedTurns[3].type = "text"
    /\ save.metrics.messageCount = 2
    /\ save.metrics.firstResponse = 1000
    /\ save.metrics.lastResponse = 7500
    /\ save.metrics.duration = 7

\* C16: isComplete is true exactly when the last turn is a choice, or is a text
\* and no request turn has a timestamp strictly after its timestamp; it is false
\* for turns ending in a request (text@t0, request later) and without turns.
CompleteExactlyWhenSpecified ==
    save.st \in {"analyze", "commit"}
    => LET turns == save.sortedTurns
           n == Len(turns)
           laterRequest ==
               \E k \in 1..n : /\ turns[k].type = "request"
                               /\ turns[k].startTime # NoTime
                               /\ turns[n].startTime # NoTime
                               /\ turns[k].startTime > turns[n].startTime
       IN  /\ save.metrics.isComplete
              <=> /\ n > 0
                  /\ \/ turns[n].type = "choice"
                     \/ turns[n].type = "text" /\ ~laterRequest
           /\ n = 0 => ~save.metrics.isComplete
           /\ n > 0 /\ turns[n].type = "request" => ~save.metrics.isComplete

\* the saved turns end in a text turn that a request turn is later than (a turn
\* without timestamp between them kept the sort from moving it): not complete
TextLastButRequestLater ==
    /\ save.st \in {"analyze", "commit"}
    /\ Len(save.sortedTurns) = 3
    /\ save.sortedTurns[1].type = "request"
    /\ save.sortedTurns[1].startTime = 7500
    /\ save.sortedTurns[3].type = "text"
    /\ save.sortedTurns[3].startTime = 1000
    /\ ~save.metrics.isComplete

\* no turn of the saved sequence yields text: none is a text or request turn
\* whose payload carries any
NoExtractableText ==
    /\ save.st \in {"analyze", "commit"}
    /\ \A k \in 1..Len(save.sortedTurns) :
          \/ save.sortedTurns[k].type \notin {"text", "request"}
          \/ save.sortedTurns[k].payload = "empty"

\* C17 as stated: without extractable text analyzeTranscript returns language
\* "en", name "unknown" and the same placeholder topic in English and in German,
\* and has not called the analysis service.
FallbackTopicsIdentical ==
    NoExtractableText
    => /\ save.st = "commit"
       /\ save.calls = 0
       /\ save.analysis.language = "en"
       /\ save.analysis.name = "unknown"
       /\ save.analysis.topicTranslations.en = save.analysis.topicTranslations.de

\* C17 as amended: without extractable text analyzeTranscript returns language
\* "en", name "unknown", the fixed English placeholder as topic and as English
\* translation and the fixed German placeholder as German translation, and has
\* not called the analysis service.
FallbackWithoutCall ==
    NoExtractableText
    => /\ save.st = "commit"
       /\ save.calls = 0
       /\ save.outcome.kind = "none"
       /\ save.analysis.language = "en"
       /\ save.analysis.name = "unknown"
       /\ save.analysis.topic = "Unknown Topic"
       /\ save.analysis.topicTranslations.en = "Unknown Topic"
       /\ save.analysis.topicTranslations.de = "Unbekanntes Thema"

\* a text turn without content and a choice turn were saved with the fallback
SilentTurnsGotFallback ==
    /\ NoExtractableText
    /\ Len(save.sortedTurns) = 2
    /\ save.sortedTurns[1].type = "text"
    /\ save.sortedTurns[2].type = "choice"
    /\ save.st = "commit"
    /\ save.calls = 0
    /\ save.analysis = FallbackAnalysis

\* C18: whatever the analysis call ends with (network error, no content,
\* unparsable body), analyzeTranscript does not throw: it returns the fallback
\* after at most one call, and saveTranscriptTurns goes on to its transaction.
AnalysisFailureFallsBack ==
    /\ [](/\ save.calls <= 1
          /\ (save.st = "commit" /\ save.outcome.kind \notin {"none", "json"})
             => save.calls = 1 /\ save.analysis = FallbackAnalysis)
    /\ [][save.st = "analyze"
          => save'.st = "commit" /\ save'.calls = save.calls]_vars

\* the call ended with a body that does not parse; the transaction is next, with
\* the fallback
UnparsableBodyFellBack ==
    /\ save.st = "commit"
    /\ save.outcome.kind = "unparsable"
    /\ save.calls = 1
    /\ save.analysis = FallbackAnalysis
    /\ extractMessages(save.sortedTurns) # <<>>

\* what is persisted of the transcript the unit works on
Observed(withName) ==
    [metrics |-> transcript[tx.id].metrics,
     language |-> transcript[tx.id].language,
     topic |-> transcript[tx.id].topic,
     topicTranslations |-> transcript[tx.id].topicTranslations,
     name |-> IF withName THEN transcript[tx.id].name ELSE "",
     turns |-> turn[tx.id]]

\* what the previous commit persisted
ObservedBefore(withName) ==
    [metrics |-> tx.previous.row.metrics,
     language |-> tx.previous.row.language,
     topic |-> tx.previous.row.topic,
     topicTranslations |-> tx.previous.row.topicTranslations,
     name |-> IF withName THEN tx.previous.row.name ELSE "",
     turns |-> tx.previous.turns]

\* what the new commit is to persist
ObservedAfter(withName) ==
    [metrics |-> calculateTranscriptMetrics(tx.sortedTurns),
     language |-> tx.analysis.language,
     topic |-> tx.analysis.topic,
     topicTranslations |-> tx.analysis.topicTranslations,
     name |-> IF withName THEN tx.analysis.name ELSE "",
     turns |-> TurnRows(tx.sortedTurns)]

\* C19 as stated: in every state the persisted metrics, analysis fields
\* (language, topic, topic translations, name) and turns of the transcript are
\* all those of the previous commit or all those of the new one, and after a
\* failed statement they are those of the previous commit.
CommitAllOrNothing ==
    /\ Observed(TRUE) \in {ObservedBefore(TRUE), ObservedAfter(TRUE)}
    /\ tx.st = "rolledBack" => Observed(TRUE) = ObservedBefore(TRUE)

\* C19 as amended: in every state the persisted metrics, language, topic, topic
\* translations and turns of the transcript are all those of the previous commit
\* or all those of the new one: those of the previous one until the transaction
\* commits, also after any of its statements has failed, and those of the new one
\* from then on. The persisted name is the previous commit's, the upsert's or the
\* new commit's.
CommitAllOrNothingButName ==
    /\ Observed(FALSE) \in {ObservedBefore(FALSE), ObservedAfter(FALSE)}
    /\ tx.st # "committed" => Observed(FALSE) = ObservedBefore(FALSE)
    /\ tx.st = "committed" => Observed(TRUE) = ObservedAfter(TRUE)
    /\ transcript[tx.id].name \in {tx.previous.row.name, "Untitled", tx.analysis.name}
    /\ transcript[tx.id].transcriptNumber = tx.previous.row.transcriptNumber

\* createMany failed after update and deleteMany had run: the turns and metrics
\* of the previous commit are still there, and differ from the new ones
RolledBackAfterDelete ==
    /\ tx.st = "rolledBack"
    /\ tx.failedAt = "createMany"
    /\ turn[tx.id] = tx.previous.turns
    /\ turn[tx.id] # <<>>
    /\ transcript[tx.id].metrics = tx.previous.row.metrics
    /\ ObservedAfter(FALSE) # ObservedBefore(FALSE)

\* C20: the handler answers the trigger's caller with the acknowledgment when it
\* starts the sync, not when the sync ends, and the answer is the same whatever
\* becomes of the sync: once given it never changes, also when the sync fails.
AcknowledgedWhateverTheOutcome ==
    /\ [](\A s \in Syncs : /\ pc[s] = "Idle" => res[s] = NotAnswered
                           /\ pc[s] # "Idle" => res[s] = Accepted)
    /\ [][\A s \in Syncs : res[s] = Accepted => res'[s] = Accepted]_vars

\* one sync has failed and another is still at work: both callers hold the same
\* acknowledgment
AcknowledgedFailedAndRunning ==
    \E s \in Syncs : \E o \in Syncs :
        /\ pc[s] = "Failed"
        /\ thrown[s] # "none"
        /\ pc[o] = "ProcessingBatch"
        /\ res[s] = Accepted
        /\ res[o] = Accepted

\* C21: when a transcript is committed, its metrics, the messages taken for the
\* analysis and its persisted turns come from one sequence: the persisted rows,
\* read in the order they were inserted, are the sorted turns, their metrics are
\* the persisted ones and their messages the ones analyzed.
OneSequenceForAll ==
    save.st = "saved"
    => LET rows == turn[save.id]
       IN  /\ Len(rows) = Len(save.sortedTurns)
           /\ \A k \in 1..Len(rows) :
                 /\ rows[k].voiceflowTurnId = save.sortedTurns[k].turnID
                 /\ rows[k].type = save.sortedTurns[k].type
                 /\ rows[k].startTime = save.sortedTurns[k].startTime
                 /\ rows[k].payload = save.sortedTurns[k].payload
           /\ transcript[save.id].metrics = calculateTranscriptMetrics(rows)
           /\ save.messages = extractMessages(rows)

\* two turns were committed that saveTranscriptTurns received in the other
\* order, and their messages were analyzed
ReorderedTurnsCommitted ==
    /\ save.st = "saved"
    /\ Len(turn[save.id]) = 2
    /\ turn[save.id][1].sequence = 1
    /\ turn[save.id][2].sequence = 0
    /\ Len(save.messages) = 2
    /\ transcript[save.id].metrics.duration > 0

\* C22: whatever the analysis service answers, also a JSON object that lacks
\* some of its keys, the language, English topic, German topic and name that
\* analyzeTranscript returns are defined values, and they are what is persisted.
AnalysisWellFormed ==
    save.st \in {"commit", "saved"}
    => /\ save.analysis.language # Undefined
       /\ save.analysis.topic # Undefined
       /\ save.analysis.topicTranslations.en # Undefined
       /\ save.analysis.topicTranslations.de # Undefined
       /\ save.analysis.name # Undefined
       /\ save.st = "saved"
          => /\ transcript[save.id].language = save.analysis.language
             /\ transcript[save.id].topic = save.analysis.topic
             /\ transcript[save.id].topicTranslations = save.analysis.topicTranslations
             /\ transcript[save.id].name = save.analysis.name

\* C23: a body of the turn endpoint that is not an array is a fatal error:
\* getTranscriptContent returns no turn sequence for it, and the unit neither
\* commits metrics nor replaces the transcript's turns.
NonArrayBodyIsFatal ==
    ~save.response.isArray
    => /\ save.st \notin {"save", "analyze", "commit", "saved"}
       /\ turn[save.id] \in {<<>>, TurnRows(SortedWithSequence(EarlierTurns))}
       /\ Len(turn[save.id]) > 0 => transcript[save.id].metrics.messageCount > 0

\* C24: after the unit has committed, the transcript's turn rows are exactly the
\* valid turns of the body fetched in this attempt, each once and in ascending
\* time; no row that was there before remains.
TurnsExactlyTheFetched ==
    save.st = "saved"
    => LET data == IF save.response.isArray THEN save.response.data ELSE <<>>
           valid == {k \in 1..Len(data) : IsValidTurn(data[k])}
           rows == turn[save.id]
       IN  /\ Len(rows) = Cardinality(valid)
           /\ \A k \in valid :
                 Cardinality({j \in 1..Len(rows) :
                     /\ rows[j].voiceflowTurnId = data[k].turnID
                     /\ rows[j].type = data[k].type
                     /\ rows[j].startTime = data[k].startTime
                     /\ rows[j].payload = data[k].payload}) = 1
           /\ \A j \in 1..Len(rows) :
                 /\ \E k \in valid : rows[j].voiceflowTurnId = data[k].turnID
                 /\ \A e \in 1..Len(save.earlier) :
                       rows[j].voiceflowTurnId # save.earlier[e].voiceflowTurnId
           /\ \A i \in 1..Len(rows) : \A j \in 1..Len(rows) :
                 i < j => rows[i].startTime <= rows[j].startTime

\* the transcript had two turns; the unit fetched three, one of them without a
\* timestamp, and committed: the other two are the transcript's turns now
EarlierTurnsReplaced ==
    /\ save.st = "saved"
    /\ Len(save.earlier) = 2
    /\ Len(save.response.data) = 3
    /\ Len(turn[save.id]) = 2
    /\ turn[save.id][1].voiceflowTurnId = 3
    /\ turn[save.id][2].voiceflowTurnId = 1

\* C25: the project's lastTranscriptNumber changes only in the assigner's
\* increment, and only upwards: no listing step, no step of a unit (upsert, turn
\* GET, commit, backoff) and no end of a sync changes it, so it never decreases.
CounterOnlyIncrementedByAssigner ==
    [][/\ lastTranscriptNumber' >= lastTranscriptNumber
       /\ lastTranscriptNumber' # lastTranscriptNumber
          => \E s \in Syncs : /\ pc[s] = "increment"
                              /\ pc'[s] # "increment"
                              /\ \A o \in Syncs \ {s} : pc'[o] = pc[o] /\ unit'[o] = unit[o]
                              /\ transcript' = transcript
                              /\ turn' = turn]_vars

\* the counter stands at 2 after two syncs: in one a unit was rejected after its
\* retries, in the other a unit was fulfilled
CounterKeptThroughFailures ==
    /\ lastTranscriptNumber = 2
    /\ \E s \in Syncs : pc[s] = "Done" /\ Rejected(s) # {}
    /\ \E s \in Syncs : pc[s] = "Done" /\ Fulfilled(s) # {}

\* C26: the chunks do not constrain scheduling: while fewer than RATE_LIMIT units
\* of a batch are in flight, no transcript of the batch is left waiting to start,
\* whatever chunk it belongs to.
ChunksDoNotConstrainScheduling ==
    \A s \in Syncs :
        (pc[s] = "ProcessingBatch" /\ Cardinality(Active(unit[s])) < RATE_LIMIT)
        => \A k \in 1..Len(unit[s]) : unit[s][k].st \notin {"idle", "queued"}

\* C27: in one run of the assigner every occurrence of a transcript id in the
\* list gets the same number, and the counter grows by the number of distinct
\* ids that had no row.
OneNumberPerListedId ==
    pc[1] = "ProcessingBatch"
    => LET tw == transcriptsWithNumbers[1]
           new == {tw[k].id : k \in 1..Len(tw)} \ DOMAIN existingTranscriptMap[1]
       IN  /\ \A j \in 1..Len(tw) : \A k \in 1..Len(tw) :
                 tw[j].id = tw[k].id => tw[j].assignedNumber = tw[k].assignedNumber
           /\ lastTranscriptNumber = (nextNumber[1] - 1) + Cardinality(new)

\* C28: when the syncs of the project run one after another, whichever units
\* fail, every persisted transcriptNumber lies between 1 and the project's
\* lastTranscriptNumber, no two persisted transcripts share a number, and no
\* number handed to a transcript is the persisted number of another one.
PersistedNumbersWithinCounter ==
    /\ \A id \in DOMAIN transcript :
          /\ transcript[id].transcriptNumber >= 1
          /\ transcript[id].transcriptNumber <= lastTranscriptNumber
          /\ \A other \in DOMAIN transcript :
                transcript[other].transcriptNumber = transcript[id].transcriptNumber
                => other = id
    /\ \A s \in Syncs : \A k \in 1..Len(transcriptsWithNumbers[s]) :
          \A id \in DOMAIN transcript :
                transcript[id].transcriptNumber
                    = transcriptsWithNumbers[s][k].assignedNumber
                => id = transcriptsWithNumbers[s][k].id

\* after two syncs with a failed unit in the first, two transcripts are
\* persisted, one with the counter's value 3, and one number was never used
TwoPersistedBelowCounter ==
    /\ pc[1] = "Done"
    /\ pc[2] = "Done"
    /\ Rejected(1) # {}
    /\ lastTranscriptNumber = 3
    /\ Cardinality(DOMAIN transcript) = 2
    /\ \E id \in DOMAIN transcript : transcript[id].transcriptNumber = 3

\* no turn is later than a turn that follows it
TimestampAscending(turns) ==
    \A i \in 1..Len(turns) : \A j \in i..Len(turns) :
        ~Later(turns[i].startTime, turns[j].startTime)

\* C29: on a timestamp-ascending turn sequence no request is later than the last
\* turn, so isComplete is true exactly when the sequence has turns and its last
\* turn is a choice or a text.
CompleteByLastTurnWhenAscending ==
    save.st \in {"analyze", "commit"} /\ TimestampAscending(save.sortedTurns)
    => LET n == Len(save.sortedTurns)
       IN  save.metrics.isComplete
           <=> n > 0 /\ save.sortedTurns[n].type \in {"choice", "text"}

\* a text turn that arrived first was sorted behind a request of the same time
\* and an earlier request: the sequence is ascending and is complete
AscendingEndsInText ==
    /\ save.st \in {"analyze", "commit"}
    /\ Len(save.sortedTurns) = 3
    /\ TimestampAscending(save.sortedTurns)
    /\ save.turns[1].type = "text"
    /\ save.sortedTurns[1].type = "request"
    /\ save.sortedTurns[1].startTime = 1000
    /\ save.sortedTurns[2].type = "request"
    /\ save.sortedTurns[2].startTime = 6000
    /\ save.sortedTurns[3].type = "text"
    /\ save.sortedTurns[3].startTime = 6000
    /\ save.sortedTurns[3].sequence = 0
    /\ save.metrics.isComplete

\* the unit's earlier attempts are over, the call of this attempt is out
Attempts(u) == u.calls["upsert"]

\* C30: within one sync the unit of a transcript is attempted at most 3 times, so
\* it issues at most 3 upserts and at most 3 transactions; an attempt issues at
\* most 3 turn GETs, so at most 9 are issued; and a turn fetch whose 3 GETs all
\* failed ends exactly one attempt of the unit.
RetryLayersNestAndAreBounded ==
    /\ [](\A s \in Syncs : \A k \in 1..Len(unit[s]) :
            LET u == unit[s][k]
            IN  /\ u.retryCount <= MAX_RETRIES
                /\ Attempts(u) <= MAX_RETRIES
                /\ Attempts(u) = IF u.st \in {"idle", "queued"} THEN 0
                                 ELSE IF u.st \in {"backoff", "rejected"}
                                 THEN u.retryCount
                                 ELSE u.retryCount + 1
                /\ u.calls["commit"] <= Attempts(u)
                /\ u.calls["commit"] <= MAX_RETRIES
                /\ u.i < FETCH_RETRIES
                /\ u.calls["get"] <= FETCH_RETRIES * Attempts(u)
                /\ u.calls["get"] <= FETCH_RETRIES * MAX_RETRIES)
    /\ [][\A s \in Syncs : \A k \in 1..Len(unit[s]) :
            /\ Len(unit'[s]) = Len(unit[s])
            /\ unit[s][k].st = "get"
            /\ unit'[s][k].st \in {"backoff", "rejected"}
            => /\ unit[s][k].i = FETCH_RETRIES - 1
               /\ unit'[s][k].retryCount = unit[s][k].retryCount + 1
               /\ unit'[s][k].calls = unit[s][k].calls]_vars

\* every turn GET of every attempt failed: 3 upserts, 9 GETs, no transaction, and
\* the unit is rejected
NineGetsThreeUpserts ==
    /\ pc[1] = "ProcessingBatch"
    /\ Len(unit[1]) = 1
    /\ unit[1][1].st = "rejected"
    /\ unit[1][1].retryCount = 3
    /\ unit[1][1].calls = [upsert |-> 3, get |-> 9, commit |-> 0]

\* C31: sorting the turns getTranscriptContent returned once more in
\* saveTranscriptTurns leaves their order unchanged, so the sequence persisted
\* with each turn is its position in the persisted order: 0, 1, 2, ...
NormalizationIdempotent ==
    /\ save.st \in {"analyze", "commit", "saved"}
       => /\ Len(save.sortedTurns) = Len(save.turns)
          /\ \A k \in 1..Len(save.sortedTurns) :
                /\ save.sortedTurns[k].sequence = k - 1
                /\ save.sortedTurns[k].turnID = save.turns[k].turnID
    /\ save.st = "saved"
       => \A k \in 1..Len(turn[save.id]) : turn[save.id][k].sequence = k - 1

====
